---- MODULE Spec2Model ----
(***************************************************************************)
(* MindForge: the LLM client's JSON retry loop (services/gigachat_client), *)
(* the quiz validator (agents/quiz) and the note pipeline of the           *)
(* orchestrator (agents/orchestrator) with its cache and question history. *)
(*                                                                         *)
(* Python strings are sequences of one-character strings, so that strip()  *)
(* and lower() are computed.  A Python scalar is a record [t, s]: t is its *)
(* type ("str", "int", "none", or "missing" for an absent dict key) and s  *)
(* the characters of str(value).                                           *)
(*                                                                         *)
(* The specifications share the variables:                                *)
(*   SpecJson     GigaChatClient.generate_json, one action per iteration   *)
(*   SpecQuiz     QuizAgent._validate_and_filter_questions                 *)
(*   Spec         OrchestratorAgent.process_note_pipeline, one action per  *)
(*                collaborator call, and submit_answer                     *)
(*   SpecCache    CacheManager on its own                                  *)
(*   SpecHistory  VectorHistoryManager on its own                          *)
(*   SpecExtract  the JSON extractors on their own                         *)
(*   SpecCount    the question counts of the two quiz generators           *)
(***************************************************************************)
EXTENDS Integers, Sequences, FiniteSets, TLC

VARIABLES
    \* ---- GigaChatClient.generate_json ----
    gj_pc,          \* "idle" | "loop" | "returned" | "raised"
    gj_prompt,      \* the prompt local (grows by _enhance_json_prompt)
    gj_retry,       \* retry_attempts
    gj_attempt,     \* the loop variable attempt
    gj_calls,       \* number of calls of generate() in this invocation
    gj_log,         \* what each call of generate() produced, in order
    gj_last_error,  \* last_error
    gj_result,      \* [kind, value]: what the invocation returned or raised
    \* ---- QuizAgent._validate_and_filter_questions ----
    qz_pc,           \* "input" | "validated"
    raw_is_list,     \* isinstance(raw_questions, list)
    raw_questions,   \* the elements of raw_questions
    valid_questions, \* the list the validator returned
    valid_again,     \* the list the validator returned for valid_questions
    \* ---- OrchestratorAgent and its collaborators ----
    pc,                 \* position in process_note_pipeline, "idle" outside it
    note,               \* note_text of the running call
    force,              \* force_reparse of the running call
    factcheck_enabled,  \* config enable_fact_check
    cache_enabled,      \* config cache_enabled (ParserAgent)
    cache,              \* CacheManager: the file of each key
    history,            \* VectorHistoryManager: the collection, in seq_id order
    current_seq_id,     \* VectorHistoryManager.current_seq_id
    current_note_hash,
    verified_concepts,
    current_quiz,
    user_score,
    total_questions_answered,
    response,           \* the local response of _analyze_content
    analysis,           \* the local analysis
    current_strategy,   \* the local current_strategy
    extracted,          \* the local extracted
    calls,              \* ghost: collaborator calls of the running call, in order
    llm_extracted,      \* ghost: the parser asked the LLM for concepts in this call
    gen_args,           \* ghost: the arguments of generate_questions in this call
    gen_batch,          \* ghost: what generate_questions returned in this call
    gen_valid,          \* ghost: the validated list inside that call
    saved,              \* ghost: the last call wrote the verified cache entry
    result,             \* what the last call returned (or raised)
    submitted,          \* ghost: the arguments of the submit_answer call that ran
    answer_result,      \* what that submit_answer call returned
    explain_calls,      \* ghost: what that call reached of the explainer, in order
    file_age,           \* cache directory: the age in days of each file (mtime)
    cache_op,           \* ghost: the last CacheManager call and what it returned
    stored,             \* ghost: per key, the value of the last successful save
                        \* with no save or delete of that key and no clear since
    written,            \* ghost: the same per file, whatever key named it
    find_args,          \* ghost: the arguments of the last find_similar call
    found,              \* ghost: the history entries that call reported
    ex_pc,              \* the JSON extractors: "input" or "parsed"
    ex_text,            \* the text handed to an extractor
    ex_fenced,          \* ghost: the content of the fenced block of ex_text
    ex_result,          \* what the extractor returned (or raised), and which one
    qc_pc,              \* the question counts: "input" or "done"
    qc_count,           \* questions_count (agents/quiz), num_questions (quiz_agent)
    qc_concepts,        \* the concepts handed to _distribute_questions
    qc_result           \* what the call computed (or raised), and which one

jvars == <<gj_pc, gj_prompt, gj_retry, gj_attempt, gj_calls, gj_log,
           gj_last_error, gj_result>>

qvars == <<qz_pc, raw_is_list, raw_questions, valid_questions, valid_again>>

pvars == <<pc, note, force, factcheck_enabled, cache_enabled, cache, history,
           current_seq_id, current_note_hash, verified_concepts, current_quiz,
           user_score, total_questions_answered, response, analysis,
           current_strategy, extracted, calls, llm_extracted, gen_args,
           gen_batch, gen_valid, saved, result>>

avars == <<submitted, answer_result, explain_calls>>

pvars_but_pc ==
    <<note, force, factcheck_enabled, cache_enabled, cache, history,
      current_seq_id, current_note_hash, verified_concepts, current_quiz,
      user_score, total_questions_answered, response, analysis,
      current_strategy, extracted, calls, llm_extracted, gen_args,
      gen_batch, gen_valid, saved, result>>

cvars == <<file_age, cache_op, stored, written>>

pvars_but_cache ==
    <<pc, note, force, factcheck_enabled, cache_enabled, history,
      current_seq_id, current_note_hash, verified_concepts, current_quiz,
      user_score, total_questions_answered, response, analysis,
      current_strategy, extracted, calls, llm_extracted, gen_args,
      gen_batch, gen_valid, saved, result>>

hvars == <<find_args, found>>

pvars_but_history ==
    <<pc, note, force, factcheck_enabled, cache_enabled, cache,
      current_note_hash, verified_concepts, current_quiz,
      user_score, total_questions_answered, response, analysis,
      current_strategy, extracted, calls, llm_extracted, gen_args,
      gen_batch, gen_valid, saved, result>>

xvars == <<ex_pc, ex_text, ex_fenced, ex_result>>

nvars == <<qc_pc, qc_count, qc_concepts, qc_result>>

vars == <<jvars, qvars, pvars, avars, cvars, hvars, xvars, nvars>>

-----------------------------------------------------------------------------
(* Bounds *)

MaxRetry == 3
MaxOptions == 3
MaxBatch == 2
MaxAnswers == 2
MaxAge == 1
MaxSeqId == 103
MaxAsked == 3
MaxCommentary == 3
MaxQuestions == 7
MaxConcepts == 4

-----------------------------------------------------------------------------
(* Python str helpers *)

\* The letters str.lower() changes: Latin A-Z and Cyrillic U+0410..U+042F.  A
\* Cyrillic character is written by its code point, "U+0434" for the letter de.
UpperChars == <<
    "A", "B", "C", "D", "E", "F", "G", "H", "I", "J", "K", "L", "M", "N",
    "O", "P", "Q", "R", "S", "T", "U", "V", "W", "X", "Y", "Z", "U+0410",
    "U+0411", "U+0412", "U+0413", "U+0414", "U+0415", "U+0416", "U+0417",
    "U+0418", "U+0419", "U+041A", "U+041B", "U+041C", "U+041D", "U+041E",
    "U+041F", "U+0420", "U+0421", "U+0422", "U+0423", "U+0424", "U+0425",
    "U+0426", "U+0427", "U+0428", "U+0429", "U+042A", "U+042B", "U+042C",
    "U+042D", "U+042E", "U+042F">>

LowerChars == <<
    "a", "b", "c", "d", "e", "f", "g", "h", "i", "j", "k", "l", "m", "n",
    "o", "p", "q", "r", "s", "t", "u", "v", "w", "x", "y", "z", "U+0430",
    "U+0431", "U+0432", "U+0433", "U+0434", "U+0435", "U+0436", "U+0437",
    "U+0438", "U+0439", "U+043A", "U+043B", "U+043C", "U+043D", "U+043E",
    "U+043F", "U+0440", "U+0441", "U+0442", "U+0443", "U+0444", "U+0445",
    "U+0446", "U+0447", "U+0448", "U+0449", "U+044A", "U+044B", "U+044C",
    "U+044D", "U+044E", "U+044F">>

\* str.lower() on one character
LowerChar(c) ==
    IF \E i \in 1..Len(UpperChars) : UpperChars[i] = c
    THEN LowerChars[CHOOSE i \in 1..Len(UpperChars) : UpperChars[i] = c]
    ELSE c

\* str.lower()
Lower(s) == [i \in 1..Len(s) |-> LowerChar(s[i])]

IsSpace(c) == c \in {" ", "\t", "\n"}

\* str.lstrip()
RECURSIVE LStrip(_)
LStrip(s) == IF s # <<>> /\ IsSpace(Head(s)) THEN LStrip(Tail(s)) ELSE s

\* str.rstrip()
RECURSIVE RStrip(_)
RStrip(s) ==
    IF s # <<>> /\ IsSpace(s[Len(s)]) THEN RStrip(SubSeq(s, 1, Len(s) - 1)) ELSE s

\* str.strip()
Strip(s) == RStrip(LStrip(s))

-----------------------------------------------------------------------------
(* Python values of the quiz records *)

S(chars) == [t |-> "str", s |-> chars]
I(chars) == [t |-> "int", s |-> chars]
NoneV == [t |-> "none", s |-> <<"N", "o", "n", "e">>]
Missing == [t |-> "missing", s |-> <<>>]

\* str(v)
Str(v) == v.s

\* dict.get(key): None for an absent key
Get(v) == IF v.t = "missing" THEN NoneV ELSE v

\* "not v" for a scalar
Falsy(v) ==
    \/ v.t \in {"missing", "none"}
    \/ v.t = "str" /\ v.s = <<>>
    \/ v.t = "int" /\ v.s = <<"0">>

\* An options value: a list of scalars, an absent key, None or another type.
L(items) == [t |-> "list", items |-> items]
MissingList == [t |-> "missing", items |-> <<>>]
NoneList == [t |-> "none", items |-> <<>>]
NotAList == [t |-> "other", items |-> <<>>]

W_multiple_choice == <<"m", "u", "l", "t", "i", "p", "l", "e", "_", "c", "h", "o", "i", "c", "e">>
W_true_false == <<"t", "r", "u", "e", "_", "f", "a", "l", "s", "e">>
W_General == <<"G", "e", "n", "e", "r", "a", "l">>
W_True == <<"T", "r", "u", "e">>
W_False == <<"F", "a", "l", "s", "e">>

\* quiz.py line 380
MultipleChoiceSynonyms == {
    <<"s", "i", "n", "g", "l", "e", "_", "c", "h", "o", "i", "c", "e">>,
    <<"m", "u", "l", "t", "i", "_", "c", "h", "o", "i", "c", "e">>,
    <<"c", "h", "o", "i", "c", "e">>,
    <<"m", "u", "l", "t", "i", "p", "l", "e", "_", "c", "h", "o", "i", "c", "e">>,
    <<"m", "u", "l", "t", "i", "p", "l", "e", "c", "h", "o", "i", "c", "e">>}

\* A list of aliases that leaves out the canonical name true_false.
TrueFalseSynonyms_aliases_only == {
    <<"b", "o", "o", "l", "e", "a", "n">>,
    <<"b", "o", "o", "l">>,
    <<"y", "e", "s", "_", "n", "o">>,
    <<"t", "f">>}

\* quiz.py line 382
TrueFalseSynonyms == {
    <<"b", "o", "o", "l", "e", "a", "n">>,
    <<"b", "o", "o", "l">>,
    <<"y", "e", "s", "_", "n", "o">>,
    <<"t", "r", "u", "e", "_", "f", "a", "l", "s", "e">>,
    <<"t", "r", "u", "e", "-", "f", "a", "l", "s", "e">>,
    <<"t", "r", "u", "e", "f", "a", "l", "s", "e">>,
    <<"t", "f">>}

\* quiz.py line 475: true, 1, yes and four Russian words
TrueWords == {
    <<"t", "r", "u", "e">>,
    <<"1">>,
    <<"y", "e", "s">>,
    <<"U+0432", "U+0435", "U+0440", "U+043D", "U+043E">>,
    <<"U+0434", "U+0430">>,
    <<"U+0438", "U+0441", "U+0442", "U+0438", "U+043D", "U+0430">>,
    <<"U+043F", "U+0440", "U+0430", "U+0432", "U+0434", "U+0430">>}

\* quiz.py line 477: false, 0, no and three Russian words
FalseWords == {
    <<"f", "a", "l", "s", "e">>,
    <<"0">>,
    <<"n", "o">>,
    <<"U+043D", "U+0435", "U+0432", "U+0435", "U+0440", "U+043D", "U+043E">>,
    <<"U+043D", "U+0435", "U+0442">>,
    <<"U+043B", "U+043E", "U+0436", "U+044C">>}


-----------------------------------------------------------------------------
(* GigaChatClient: generate and generate_json *)

\* What gigachat.invoke does on one call: it answers with a text, or the
\* provider raises.  A provider error may itself be a JSON decode error (a
\* broken HTTP body) or anything else.
ProviderOutcomes ==
    {[kind |-> "text", body |-> b] : b \in {"json_a", "json_b", "prose", "empty", "six_backticks"}}
    \cup {[kind |-> "raise", body |-> e] : e \in {"ConnectionError", "JSONDecodeError"}}

\* A text is a sequence of pieces: the fence marker, the language tag, the
\* newline, braces, the comma, a key with its value, a word of prose, a
\* comment.  PyPair is a pair in Python spelling; NullPair is what the
\* replacements of lines 211-220 make of it, QuotedPair what the quote
\* rules of fix_common_json_errors make of it.  The double quotes around
\* the keys are left out of the names; the fence marker is three backticks.
Fence == "fence"
Tag == "json"
NL == "LF"
LBrace == "{"
RBrace == "}"
Comma == ","
PairA == "a: 1"
PairB == "b: 2"
PyPair == "a: None, single quotes"
NullPair == "a: null"
QuotedPair == "a: None"
Word == "word"
LineComment == "// c"
BlockComment == "/* c */"

JsonPairs == {PairA, PairB, NullPair}
KeyOf(pair) == IF pair = PairB THEN "b" ELSE "a"

\* The texts of the provider outcomes above.
TextOf(body) ==
    CASE body = "empty"         -> <<>>
      [] body = "six_backticks" -> <<Fence, Fence>>
      [] body = "prose"         -> <<Word>>
      [] body = "json_a"        -> <<LBrace, PairA, RBrace>>
      [] body = "json_b"        -> <<LBrace, PairB, RBrace>>

SetMin(set) == CHOOSE x \in set : \A y \in set : x <= y
SetMax(set) == CHOOSE x \in set : \A y \in set : x >= y

\* str.strip
StripText(text) ==
    LET solid == {i \in 1..Len(text) : text[i] # NL}
    IN  IF solid = {} THEN <<>> ELSE SubSeq(text, SetMin(solid), SetMax(solid))

Raised(exc) == [kind |-> "raise", exc |-> exc, value |-> "none"]

\* json.loads of an object: braces around pairs separated by commas, white
\* space anywhere; the value is the dict, the last pair of a key winning.
\* Anything else raises JSONDecodeError.  strict=False differs only on
\* control characters inside strings, which these texts do not have.
json_loads(text) ==
    LET t == SelectSeq(text, LAMBDA x : x # NL)
        n == Len(t)
        inner == SubSeq(t, 2, n - 1)
        ok == /\ n >= 2
              /\ t[1] = LBrace
              /\ t[n] = RBrace
              /\ \/ inner = <<>>
                 \/ /\ Len(inner) % 2 = 1
                    /\ \A i \in 1..Len(inner) :
                          IF i % 2 = 1 THEN inner[i] \in JsonPairs ELSE inner[i] = Comma
    IN  IF ok
        THEN [kind |-> "value", exc |-> "none",
              value |-> {inner[i] : i \in {j \in 1..Len(inner) :
                            /\ j % 2 = 1
                            /\ \A k \in (j + 1)..Len(inner) :
                                  k % 2 = 1 => KeyOf(inner[k]) # KeyOf(inner[j])}}]
        ELSE Raised("JSONDecodeError")

\* The pattern of gigachat_client.py line 163 and text_cleaner.py line 51 is
\* six backticks in a row, without a group.
HasSixBackticks(text) ==
    \E i \in 1..(Len(text) - 1) : text[i] = Fence /\ text[i + 1] = Fence

\* Lines 171-172 (and remove_comments): comment lines and block comments go.
RemoveComments(text) ==
    SelectSeq(text, LAMBDA x : x \notin {LineComment, BlockComment})

\* Line 201 (and extract_json_object): the greedy pattern, from the first
\* opening brace to the last closing brace of the text; <<>> without a match.
BraceSpan(text) ==
    LET opens == {i \in 1..Len(text) : text[i] = LBrace}
        closes == {i \in 1..Len(text) : text[i] = RBrace /\ opens # {} /\ i > SetMin(opens)}
    IN  IF closes = {} THEN <<>> ELSE SubSeq(text, SetMin(opens), SetMax(closes))

\* Lines 211-220
Replacements(text) ==
    [i \in 1..Len(text) |-> IF text[i] = PyPair THEN NullPair ELSE text[i]]

\* _parse_json_from_text.  The fence pattern has no group, so a text with
\* six backticks in a row reaches match.group(1) and raises IndexError, and
\* no other fence is ever taken off.
_parse_json_from_text(text) ==
    IF text = <<>> THEN Raised("JSONDecodeError")
    ELSE IF HasSixBackticks(StripText(text)) THEN Raised("IndexError")
    ELSE LET cleaned == RemoveComments(StripText(text))
             span == BraceSpan(cleaned)
         IN  IF json_loads(cleaned).kind = "value" THEN json_loads(cleaned)
             ELSE IF span # <<>> /\ json_loads(span).kind = "value" THEN json_loads(span)
             ELSE json_loads(Replacements(cleaned))

\* A buggy generate that lets the provider's exception through unwrapped.
generate_unwrapped(out) ==
    IF out.kind = "text"
    THEN [kind |-> "text", exc |-> "none", body |-> out.body]
    ELSE [kind |-> "raise", exc |-> out.body, body |-> "none"]

\* generate: the text of the response, or Exception("GigaChat API error: ...")
\* whatever the provider raised.
generate(out) ==
    IF out.kind = "text"
    THEN [kind |-> "text", exc |-> "none", body |-> out.body]
    ELSE [kind |-> "raise", exc |-> "Exception", body |-> "none"]

\* The enhancement text of _enhance_json_prompt, as one marker character.
Enhancement == <<"!">>

_enhance_json_prompt(original_prompt) == original_prompt \o Enhancement

\* "not prompt or not prompt.strip()"
PromptIsEmpty(prompt) == prompt = <<>> \/ Strip(prompt) = <<>>

Prompts == {<<>>, <<" ">>, <<"q">>, <<" ", "q", "\n">>}

NoResult == [kind |-> "none", value |-> "none"]

\* A loop that makes one attempt too many.
LoopContinues_off_by_one(attempt, retry_attempts) == attempt <= retry_attempts + 1

\* "for attempt in range(1, retry_attempts + 1)"
LoopContinues(attempt, retry_attempts) == attempt <= retry_attempts

\* The statement after the loop: raise ValueError(error_msg)
Exhausted == [kind |-> "raise", value |-> "ValueError"]

\* Entry of generate_json: the empty-prompt check and the first loop test.
GenerateJsonStart(prompt, retry_attempts) ==
    /\ gj_pc = "idle"
    /\ gj_prompt' = prompt
    /\ gj_retry' = retry_attempts
    /\ gj_calls' = 0
    /\ gj_log' = <<>>
    /\ gj_last_error' = "None"
    /\ gj_attempt' = 1
    /\ IF PromptIsEmpty(prompt)
       THEN gj_pc' = "raised" /\ gj_result' = [kind |-> "raise", value |-> "ValueError"]
       ELSE IF LoopContinues(1, retry_attempts)
            THEN gj_pc' = "loop" /\ gj_result' = NoResult
            ELSE gj_pc' = "raised" /\ gj_result' = Exhausted

\* One iteration of the loop: generate, parse, the two except clauses, and
\* the raise after the loop when this was the last iteration.
GenerateJsonAttempt(out) ==
    /\ gj_pc = "loop"
    /\ gj_calls' = gj_calls + 1
    /\ gj_log' = Append(gj_log, out)
    /\ gj_retry' = gj_retry
    /\ LET raw == generate(out)
           parsed == IF raw.kind = "text" THEN _parse_json_from_text(TextOf(raw.body))
                     ELSE [kind |-> "raise", exc |-> raw.exc, value |-> "none"]
       IN  IF parsed.kind = "value"
           THEN \* return parsed_json
                /\ gj_pc' = "returned"
                /\ gj_result' = [kind |-> "value", value |-> parsed.value]
                /\ UNCHANGED <<gj_prompt, gj_attempt, gj_last_error>>
           ELSE IF parsed.exc = "JSONDecodeError"
           THEN \* except json.JSONDecodeError
                /\ gj_last_error' = "JSONDecodeError"
                /\ gj_prompt' = IF gj_attempt < gj_retry
                                THEN _enhance_json_prompt(gj_prompt)
                                ELSE gj_prompt
                /\ gj_attempt' = gj_attempt + 1
                /\ IF LoopContinues(gj_attempt + 1, gj_retry)
                   THEN gj_pc' = "loop" /\ gj_result' = NoResult
                   ELSE gj_pc' = "raised" /\ gj_result' = Exhausted
           ELSE \* except Exception: raise
                /\ gj_pc' = "raised"
                /\ gj_result' = [kind |-> "raise", value |-> parsed.exc]
                /\ UNCHANGED <<gj_prompt, gj_attempt, gj_last_error>>

\* The caller has its result; the client is ready for the next invocation.
GenerateJsonDone ==
    /\ gj_pc \in {"returned", "raised"}
    /\ gj_pc' = "idle"
    /\ gj_result' = NoResult
    /\ UNCHANGED <<gj_prompt, gj_retry, gj_attempt, gj_calls, gj_log, gj_last_error>>

-----------------------------------------------------------------------------
(* utils/text_cleaner.py and the two extractors on their own *)

\* extract_json_from_markdown: the stripped text; the pattern has no group,
\* so a match raises IndexError.
extract_json_from_markdown(text) ==
    IF HasSixBackticks(StripText(text))
    THEN [kind |-> "raise", text |-> <<>>]
    ELSE [kind |-> "text", text |-> StripText(text)]

\* remove_comments
remove_comments(text) == RemoveComments(text)

\* extract_json_object
extract_json_object(text) == BraceSpan(text)

\* fix_common_json_errors: a comma before a closing brace goes (white space
\* may stand between them), and a key in single quotes gets double quotes.
fix_common_json_errors(text) ==
    LET trailing(i) ==
            /\ text[i] = Comma
            /\ \E j \in (i + 1)..Len(text) :
                  /\ text[j] = RBrace
                  /\ \A k \in (i + 1)..(j - 1) : text[k] = NL
        marked == [i \in 1..Len(text) |->
                      IF trailing(i) THEN ""
                      ELSE IF text[i] = PyPair THEN QuotedPair
                      ELSE text[i]]
    IN  SelectSeq(marked, LAMBDA x : x # "")

NoneReturned == [kind |-> "none", exc |-> "none", value |-> "none"]

\* parse_llm_json(text, strict=False): None when nothing parses.  Only
\* JSONDecodeError is caught, so the IndexError of the fence pattern leaves
\* the function.
parse_llm_json(text) ==
    IF StripText(text) = <<>> THEN NoneReturned
    ELSE IF json_loads(text).kind = "value" THEN json_loads(text)
    ELSE IF extract_json_from_markdown(text).kind = "raise" THEN Raised("IndexError")
    ELSE LET cleaned == StripText(remove_comments(extract_json_from_markdown(text).text))
             span == extract_json_object(cleaned)
             base == IF span # <<>> THEN span ELSE cleaned
             fixed == fix_common_json_errors(base)
         IN  IF json_loads(cleaned).kind = "value" THEN json_loads(cleaned)
             ELSE IF span # <<>> /\ json_loads(span).kind = "value"
             THEN json_loads(span)
             ELSE IF fixed # base /\ json_loads(fixed).kind = "value"
             THEN json_loads(fixed)
             ELSE NoneReturned

\* The JSON objects a model answers with.
Objects ==
    {<<LBrace, RBrace>>,
     <<LBrace, PairA, RBrace>>,
     <<LBrace, NL, PairA, Comma, NL, PairB, NL, RBrace>>}

\* A fenced block, with or without the language tag.
Fenced(content, tagged) ==
    <<Fence>> \o (IF tagged THEN <<Tag>> ELSE <<>>) \o <<NL>> \o content \o <<NL, Fence>>

\* What follows the block: up to MaxCommentary pieces of prose, braces and
\* comments.
CommentaryPieces == {Word, LBrace, RBrace, BlockComment}
Commentaries ==
    UNION {[1..n -> CommentaryPieces] : n \in 1..MaxCommentary}

\* Other answers: the bare object, prose before it, a trailing comma, the
\* Python spelling.
OtherTexts ==
    {<<LBrace, PairA, RBrace>>,
     <<Word, LBrace, PairA, RBrace>>,
     <<Word, LBrace, PairA, Comma, RBrace>>,
     <<LBrace, PyPair, RBrace>>,
     <<LineComment, NL, LBrace, PairB, RBrace>>,
     <<Fence, Fence>>,
     <<Word>>,
     <<NL>>,
     <<>>}

NoExtraction == [by |-> "none", kind |-> "none", exc |-> "none", value |-> "none"]

ExtractIdle ==
    /\ ex_pc = "input"
    /\ ex_text = <<>>
    /\ ex_fenced = <<>>
    /\ ex_result = NoExtraction

\* GigaChatClient._parse_json_from_text(ex_text)
ParseJsonFromText ==
    /\ ex_pc = "input"
    /\ ex_pc' = "parsed"
    /\ LET r == _parse_json_from_text(ex_text)
       IN  ex_result' = [by |-> "_parse_json_from_text", kind |-> r.kind,
                         exc |-> r.exc, value |-> r.value]
    /\ UNCHANGED <<ex_text, ex_fenced>>

\* parse_llm_json(ex_text)
ParseLlmJson ==
    /\ ex_pc = "input"
    /\ ex_pc' = "parsed"
    /\ LET r == parse_llm_json(ex_text)
       IN  ex_result' = [by |-> "parse_llm_json", kind |-> r.kind,
                         exc |-> r.exc, value |-> r.value]
    /\ UNCHANGED <<ex_text, ex_fenced>>

-----------------------------------------------------------------------------
(* Claims about the JSON extractors *)

\* C20: for a text made of a fenced JSON object and commentary after it,
\* each extractor returns the value that parsing the fenced content gives.
C20_FencedWithCommentary ==
    (ex_pc = "parsed" /\ ex_fenced # <<>>) =>
        /\ ex_result.kind = "value"
        /\ ex_result.value = json_loads(ex_fenced).value

\* The response "Here is your JSON: {"a": 1,}": prose, then an object with
\* a comma before its closing brace.
TrailingCommaText == <<Word, LBrace, PairA, Comma, RBrace>>

\* C21: the extractor of the LLM calls (_parse_json_from_text, called by
\* generate_json) parses prose followed by an object with a trailing comma
\* to the object without the comma.
C21_TrailingCommaRepaired ==
    (/\ ex_pc = "parsed"
     /\ ex_text = TrailingCommaText
     /\ ex_result.by = "_parse_json_from_text") =>
        /\ ex_result.kind = "value"
        /\ ex_result.value = {PairA}

\* The same response given to parse_llm_json of utils/text_cleaner, which no
\* agent calls: its fix_common_json_errors step does take the comma off.
C21_CleanerRepairs ==
    (/\ ex_pc = "parsed"
     /\ ex_text = TrailingCommaText
     /\ ex_result.by = "parse_llm_json") =>
        /\ ex_result.kind = "value"
        /\ ex_result.value = {PairA}

-----------------------------------------------------------------------------
(* Claims about generate_json *)

\* The responses of this invocation that _parse_json_from_text rejected with
\* a JSON decode error.
IsDecodeFailure(out) ==
    out.kind = "text" /\ out.body \in {"prose", "empty"}

IsParsable(out) == out.kind = "text" /\ out.body \in {"json_a", "json_b"}

ValueOfBody(out) == IF out.body = "json_a" THEN {PairA} ELSE {PairB}

\* C1: generate_json(prompt, retry_attempts = n) calls generate at most n
\* times; when it returns, it returns the parsed value of the first response
\* that parses (all earlier ones were decode failures); when n responses all
\* failed JSON decoding it has raised ValueError and is not looping.
C1_BoundedRetries ==
    /\ gj_calls <= gj_retry
    /\ gj_calls = Len(gj_log)
    /\ gj_pc = "returned" =>
          /\ gj_log # <<>>
          /\ IsParsable(gj_log[Len(gj_log)])
          /\ gj_result = [kind |-> "value", value |-> ValueOfBody(gj_log[Len(gj_log)])]
          /\ \A i \in 1..(Len(gj_log) - 1) : IsDecodeFailure(gj_log[i])
    /\ (/\ gj_pc # "idle"
        /\ ~PromptIsEmpty(gj_prompt)
        /\ Len(gj_log) = gj_retry
        /\ \A i \in 1..Len(gj_log) : IsDecodeFailure(gj_log[i]))
          => gj_pc = "raised" /\ gj_result = [kind |-> "raise", value |-> "ValueError"]

\* C1 witness: three malformed responses in a row, ValueError raised.
C1_Witness ==
    /\ gj_pc = "raised"
    /\ gj_retry = 3
    /\ gj_calls = 3
    /\ \A i \in 1..3 : IsDecodeFailure(gj_log[i])
    /\ gj_result.value = "ValueError"

\* C2: once a call of generate in an invocation ended with anything but a
\* JSON decode failure of the response text (the provider raised, whatever it
\* raised, or the parser raised another error), the invocation is over with
\* that error re-raised: the failing call is the last one of the log.
C2_OnlyDecodeErrorsRetried ==
    \A i \in 1..Len(gj_log) :
        (gj_log[i].kind = "raise" \/ gj_log[i].body = "six_backticks") =>
            /\ i = Len(gj_log)
            /\ gj_pc \in {"raised", "idle"}
            /\ gj_pc = "raised" =>
                  /\ gj_result.kind = "raise"
                  /\ gj_result.value # "ValueError"

\* C2 witness: a malformed response was retried, then the provider raised
\* and the invocation ended with the provider's error after two calls of three.
C2_Witness ==
    /\ gj_pc = "raised"
    /\ gj_retry = 3
    /\ Len(gj_log) = 2
    /\ IsDecodeFailure(gj_log[1])
    /\ gj_log[2].kind = "raise"
    /\ gj_result = [kind |-> "raise", value |-> "Exception"]

-----------------------------------------------------------------------------
(* QuizAgent: _validate_question_structure and _validate_and_filter_questions *)

\* The length cap of the question text and the length kept before "...".
QuestionCap == 300
QuestionKeep == 297

\* An element of raw_questions: a dict with its five keys (each possibly
\* absent), or something that is not a dict.
Rec(question, type, related, options, answer) ==
    [dict |-> TRUE, question |-> question, type |-> type,
     related_concept |-> related, options |-> options, correct_answer |-> answer]

NotADict == [dict |-> FALSE, question |-> Missing, type |-> Missing,
             related_concept |-> Missing, options |-> MissingList,
             correct_answer |-> Missing]

\* Step 1, lines 364-374: the question text, stripped and capped.
QuestionRejected(q) ==
    Falsy(q.question) \/ Strip(Str(Get(q.question))) = <<>>

NormalQuestion(q) ==
    LET text == Strip(Str(q.question))
    IN  IF Len(text) > QuestionCap
        THEN SubSeq(text, 1, QuestionKeep) \o <<".", ".", ".">>
        ELSE text

\* Step 2, lines 377-387: str(q.get("type", "")).lower().strip()
RawType(q) ==
    Strip(Lower(IF q.type.t = "missing" THEN <<>> ELSE Str(q.type)))

NormalType(q) ==
    IF RawType(q) \in MultipleChoiceSynonyms THEN W_multiple_choice
    ELSE IF RawType(q) \in TrueFalseSynonyms THEN W_true_false
    ELSE <<>>

\* Step 3, lines 391-394
NormalRelated(q) ==
    IF Falsy(q.related_concept) \/ Strip(Str(Get(q.related_concept))) = <<>>
    THEN W_General
    ELSE Strip(Str(q.related_concept))

\* Lines 411-415: options stripped, without None and blank entries.
RECURSIVE CleanOptions(_)
CleanOptions(items) ==
    IF items = <<>> THEN <<>>
    ELSE LET opt == Head(items)
         IN  IF opt.t # "none" /\ Strip(Str(opt)) # <<>>
             THEN <<Strip(Str(opt))>> \o CleanOptions(Tail(items))
             ELSE CleanOptions(Tail(items))

\* Lines 423-435: the first occurrence of each option, ignoring case.
RECURSIVE UniqueOptions(_, _)
UniqueOptions(opts, seen_lower) ==
    IF opts = <<>> THEN <<>>
    ELSE IF Lower(Head(opts)) \in seen_lower
         THEN UniqueOptions(Tail(opts), seen_lower)
         ELSE <<Head(opts)>> \o UniqueOptions(Tail(opts), seen_lower \cup {Lower(Head(opts))})

\* list.index: the first position of x in xs
IndexOf(xs, x) == CHOOSE i \in 1..Len(xs) : xs[i] = x /\ \A j \in 1..(i - 1) : xs[j] # x

\* A validator that checks the answer against the options but keeps the
\* answer's own casing.
MatchedAnswer_keeps_case(options, answer) == answer

\* Lines 450-463: correct_answer rewritten to the option it matches.
MatchedAnswer(options, answer) ==
    LET options_lower == [i \in 1..Len(options) |-> Lower(options[i])]
    IN  options[IndexOf(options_lower, Lower(answer))]

\* A validator that leaves the options of a true_false record as they came.
ForcedOptions_kept(q) == q.options

\* Line 484
ForcedOptions(q) == L(<<S(W_True), S(W_False)>>)

StrList(seq) == L([i \in 1..Len(seq) |-> S(seq[i])])

\* Step 4, lines 397-463.  [ok, q]: whether the record passes and the record
\* as the method leaves it.
ValidateMultipleChoice(q) ==
    LET options == IF q.options.t = "missing" THEN L(<<>>) ELSE q.options
        cleaned == CleanOptions(options.items)
        unique == UniqueOptions(cleaned, {})
        answer == Strip(Str(q.correct_answer))
    IN  IF options.t # "list" THEN [ok |-> FALSE, q |-> q]
        ELSE IF q.correct_answer.t \in {"missing", "none"} THEN [ok |-> FALSE, q |-> q]
        ELSE IF Len(cleaned) < 2
             THEN [ok |-> FALSE, q |-> [q EXCEPT !.options = StrList(cleaned)]]
        ELSE IF Len(unique) < 2
             THEN [ok |-> FALSE, q |-> [q EXCEPT !.options = StrList(unique)]]
        ELSE IF answer = <<>>
             THEN [ok |-> FALSE,
                   q |-> [q EXCEPT !.options = StrList(unique), !.correct_answer = S(answer)]]
        ELSE IF ~\E i \in 1..Len(unique) : Lower(unique[i]) = Lower(answer)
             THEN [ok |-> FALSE,
                   q |-> [q EXCEPT !.options = StrList(unique), !.correct_answer = S(answer)]]
        ELSE [ok |-> TRUE,
              q |-> [q EXCEPT !.options = StrList(unique),
                              !.correct_answer = S(MatchedAnswer(unique, answer))]]

\* Step 5, lines 466-484
ValidateTrueFalse(q) ==
    LET ans_str == Strip(Lower(Str(q.correct_answer)))
    IN  IF q.correct_answer.t \in {"missing", "none"} THEN [ok |-> FALSE, q |-> q]
        ELSE IF ans_str \in TrueWords
             THEN [ok |-> TRUE,
                   q |-> [q EXCEPT !.correct_answer = S(W_True),
                                   !.options = ForcedOptions(q)]]
        ELSE IF ans_str \in FalseWords
             THEN [ok |-> TRUE,
                   q |-> [q EXCEPT !.correct_answer = S(W_False),
                                   !.options = ForcedOptions(q)]]
        ELSE [ok |-> FALSE, q |-> q]

_validate_question_structure(q) ==
    IF QuestionRejected(q) THEN [ok |-> FALSE, q |-> q]
    ELSE LET q1 == [q EXCEPT !.question = S(NormalQuestion(q))]
         IN  IF NormalType(q1) = <<>> THEN [ok |-> FALSE, q |-> q1]
             ELSE LET q2 == [q1 EXCEPT !.type = S(NormalType(q1)),
                                       !.related_concept = S(NormalRelated(q1))]
                  IN  IF q2.type.s = W_multiple_choice
                      THEN ValidateMultipleChoice(q2)
                      ELSE ValidateTrueFalse(q2)

\* A loop that stops at the first element it rejects.
RECURSIVE FilterValid_stops(_)
FilterValid_stops(raw) ==
    IF raw = <<>> THEN <<>>
    ELSE LET head == Head(raw)
             res == _validate_question_structure(head)
         IN  IF head.dict /\ res.ok
             THEN <<res.q>> \o FilterValid_stops(Tail(raw))
             ELSE <<>>

RECURSIVE FilterValid(_)
FilterValid(raw) ==
    IF raw = <<>> THEN <<>>
    ELSE LET head == Head(raw)
             res == _validate_question_structure(head)
         IN  IF head.dict /\ res.ok
             THEN <<res.q>> \o FilterValid(Tail(raw))
             ELSE FilterValid(Tail(raw))

_validate_and_filter_questions(is_list, raw) ==
    IF ~is_list THEN <<>> ELSE FilterValid(raw)

\* QuizAgent validates the list generate_json returned.
ValidateAndFilter ==
    /\ qz_pc = "input"
    /\ valid_questions' = _validate_and_filter_questions(raw_is_list, raw_questions)
    /\ qz_pc' = "validated"
    /\ UNCHANGED <<raw_is_list, raw_questions, valid_again>>

\* The validator is given the list it returned.
ValidateAgain ==
    /\ qz_pc = "validated"
    /\ valid_again' = _validate_and_filter_questions(TRUE, valid_questions)
    /\ qz_pc' = "revalidated"
    /\ UNCHANGED <<raw_is_list, raw_questions, valid_questions>>

-----------------------------------------------------------------------------
(* CacheManager, ParserAgent, FactCheckAgent, VectorHistoryManager *)

\* Two notes: N1 is a long text, N2 has fewer than 50 characters.
Notes == {"N1", "N2"}
ShortNoteLimit == 50
NoteLen(n) == IF n = "N1" THEN 400 ELSE 20

\* compute_hash: SHA-256 of the text, distinct texts giving distinct digests.
compute_hash(text) == <<"sha256", text>>

\* The cache keys in use: the parser stores under the hash itself, the
\* orchestrator under "verified_" + hash.  _get_filepath adds ".json".
ParserKey(hash) == [prefix |-> "", hash |-> hash]
VerifiedKey(hash) == [prefix |-> "verified_", hash |-> hash]
CacheKeys == {ParserKey(compute_hash(n)) : n \in Notes}
             \cup {VerifiedKey(compute_hash(n)) : n \in Notes}

\* The file of a key: absent, not parsable, or JSON (a list of concepts or
\* the V2 envelope).  Of the envelope's metadata the model keeps the strategy;
\* content_type, complexity and summary feed the quiz difficulty and the logs.
NoFile == [kind |-> "nofile"]
CorruptFile == [kind |-> "corrupt"]
ListFile(concepts) == [kind |-> "list", concepts |-> concepts]

\* An envelope written without the concepts of the run.
V2File_no_concepts(strategy, concepts) ==
    [kind |-> "v2", strategy |-> strategy, concepts |-> <<>>]

V2File(strategy, concepts) ==
    [kind |-> "v2", strategy |-> strategy, concepts |-> concepts]

\* CacheManager.exists
exists(c, key) == c[key].kind # "nofile"

\* CacheManager.load (and get): None when the file is absent or unreadable
load(c, key) == IF c[key].kind \in {"nofile", "corrupt"} THEN [kind |-> "none"] ELSE c[key]

\* A save that reports success and writes nothing.
save_nothing(c, key, data, io_ok) == c

\* Python values handed to save besides the two above: a dict with one key
\* (a str or an int), a dict that holds a set, and a str.
DictOf(key) == [kind |-> "dict", keys |-> <<key>>]
DictWithSet == [kind |-> "dict_with_set"]
NotDictOrList == [kind |-> "str"]

\* Line 100: isinstance(data, (dict, list))
IsDictOrList(data) == data.kind \in {"list", "v2", "dict", "dict_with_set"}

\* json.dump raises TypeError on a set.
Serializable(data) == data.kind # "dict_with_set"

\* json.dump, as the value json.load reads back: the keys of a JSON object
\* are strings, so an int key 1 is written as "1"; lists and dicts with str
\* keys are written as they are.
json_dump(data) ==
    IF data.kind = "dict"
    THEN [data EXCEPT !.keys = [i \in 1..Len(data.keys) |-> S(data.keys[i].s)]]
    ELSE data

\* CacheManager.save of a dict or list; io_ok is whether the file could be
\* opened and written.  A value json.dump cannot serialize leaves the file
\* truncated or partly written.
save(c, key, data, io_ok) ==
    IF ~IsDictOrList(data) \/ ~io_ok THEN c
    ELSE IF ~Serializable(data) THEN [c EXCEPT ![key] = CorruptFile]
    ELSE [c EXCEPT ![key] = json_dump(data)]

\* What save returns.
save_returns(data, io_ok) == IsDictOrList(data) /\ io_ok /\ Serializable(data)

\* A delete that only reports.
delete_nothing(c, key, io_ok) == c

\* CacheManager.delete; io_ok is whether unlink succeeded.
delete(c, key, io_ok) ==
    IF c[key].kind = "nofile" \/ ~io_ok THEN c ELSE [c EXCEPT ![key] = NoFile]

\* What delete returns.
delete_returns(c, key, io_ok) == c[key].kind # "nofile" /\ io_ok

\* Line 178: the file is deleted when there is no cutoff or its mtime is
\* before now - max_age_days.  NoLimit stands for max_age_days=None.
NoLimit == -1
should_delete(age, max_age_days) == max_age_days = NoLimit \/ age > max_age_days

\* CacheManager.clear: every *.json file that should be deleted and whose
\* unlink does not fail (failing: the files whose unlink raises).
clear(c, age, max_age_days, failing) ==
    [f \in DOMAIN c |->
        IF c[f].kind # "nofile" /\ should_delete(age[f], max_age_days) /\ f \notin failing
        THEN NoFile ELSE c[f]]

\* What clear returns: the number of files deleted.
clear_returns(c, age, max_age_days, failing) ==
    Cardinality({f \in DOMAIN c : c[f] # clear(c, age, max_age_days, failing)[f]})

\* The keys the callers of this model pass: a name, the same name with the
\* extension, and another name.
KeyA == <<"a">>
KeyAJson == <<"a", ".", "j", "s", "o", "n">>
KeyB == <<"b">>
KeyNames == {KeyA, KeyAJson, KeyB}
DotJson == <<".", "j", "s", "o", "n">>

\* str.endswith
EndsWith(str, suffix) ==
    /\ Len(str) >= Len(suffix)
    /\ SubSeq(str, Len(str) - Len(suffix) + 1, Len(str)) = suffix

\* Lines 259-274: the file of a key, inside cache_dir.
_get_filepath(filename) ==
    IF ~EndsWith(filename, DotJson) THEN filename \o DotJson ELSE filename

FileNames == {_get_filepath(k) : k \in KeyNames}

\* The values saved.
SavedValues ==
    {ListFile(<<"t1">>),
     DictOf(S(<<"a">>)), DictOf(I(<<"1">>)),
     DictWithSet, NotDictOrList}

NoOp == [op |-> "none", key |-> <<>>, max_age_days |-> NoLimit, returned |-> 0,
         failed |-> FALSE]
NoValue == [kind |-> "novalue"]

CacheOpsIdle ==
    /\ file_age = <<>>
    /\ cache_op = NoOp
    /\ stored = <<>>
    /\ written = <<>>

\* save(filename, data)
CacheManagerSave(filename, data, io_ok) ==
    LET path == _get_filepath(filename)
        ok == save_returns(data, io_ok)
    IN  /\ cache' = save(cache, path, data, io_ok)
        /\ file_age' = IF IsDictOrList(data) /\ io_ok
                       THEN [file_age EXCEPT ![path] = 0] ELSE file_age
        /\ cache_op' = [NoOp EXCEPT !.op = "save", !.key = filename,
                                    !.returned = IF ok THEN 1 ELSE 0,
                                    !.failed = ~io_ok]
        /\ stored' = [stored EXCEPT ![filename] = IF ok THEN data ELSE NoValue]
        /\ written' = [written EXCEPT ![path] = IF ok THEN data ELSE NoValue]

\* delete(filename)
CacheManagerDelete(filename, io_ok) ==
    LET path == _get_filepath(filename)
    IN  /\ cache' = delete(cache, path, io_ok)
        /\ cache_op' = [NoOp EXCEPT !.op = "delete", !.key = filename,
                                    !.returned = IF delete_returns(cache, path, io_ok)
                                                 THEN 1 ELSE 0,
                                    !.failed = cache[path].kind # "nofile" /\ ~io_ok]
        /\ stored' = [stored EXCEPT ![filename] = NoValue]
        /\ written' = [written EXCEPT ![path] = NoValue]
        /\ UNCHANGED file_age

\* clear(max_age_days)
CacheManagerClear(max_age_days, failing) ==
    /\ cache' = clear(cache, file_age, max_age_days, failing)
    /\ cache_op' = [NoOp EXCEPT !.op = "clear", !.max_age_days = max_age_days,
                                !.returned = clear_returns(cache, file_age,
                                                           max_age_days, failing),
                                !.failed = cache' # clear(cache, file_age,
                                                          max_age_days, {})]
    /\ stored' = [k \in KeyNames |-> NoValue]
    /\ written' = [f \in FileNames |-> NoValue]
    /\ UNCHANGED file_age

\* A day goes by: every file is a day older.
DayPasses ==
    /\ \E f \in FileNames : cache[f].kind # "nofile" /\ file_age[f] < MaxAge
    /\ file_age' = [f \in FileNames |->
                      IF cache[f].kind # "nofile" /\ file_age[f] < MaxAge
                      THEN file_age[f] + 1 ELSE file_age[f]]
    /\ UNCHANGED <<cache, cache_op, stored, written>>

\* A concept dict.  definition tells who wrote it: the parser's LLM call
\* ("extracted") or the fact-checker's ("verified").
Concept(term, definition, code) ==
    [dict |-> TRUE, term |-> term, definition |-> definition, code_snippet |-> code]
NotAConcept == [dict |-> FALSE, term |-> "", definition |-> "", code_snippet |-> FALSE]

\* What the LLM may answer to the extraction prompt: it raises, answers with
\* something that is not a list, or with a list of concepts.
ExtractionOutcomes ==
    {[kind |-> "raise", concepts |-> <<>>], [kind |-> "notlist", concepts |-> <<>>]}
    \cup {[kind |-> "list", concepts |-> cs] : cs \in {
            <<>>,
            <<Concept("t1", "extracted", FALSE), Concept("t2", "extracted", FALSE)>>}}

\* ParserAgent.parse_note: [kind, concepts, cache, llm], kind "raise" when it
\* raises.  The parser's own cache entry is returned without an LLM call.
parse_note(c, text, enabled, out, io_ok) ==
    LET key == ParserKey(compute_hash(text))
        cached == load(c, key)
    IN  IF enabled /\ cached.kind # "none"
        THEN [kind |-> "return", concepts |-> cached.concepts, cache |-> c, llm |-> FALSE]
        ELSE IF out.kind # "list"
        THEN [kind |-> "raise", concepts |-> <<>>, cache |-> c, llm |-> TRUE]
        ELSE [kind |-> "return", concepts |-> out.concepts,
              cache |-> IF enabled THEN save(c, key, ListFile(out.concepts), io_ok) ELSE c,
              llm |-> TRUE]

\* What the LLM may answer to the fact-check prompt: it raises (or answers
\* with something that is not a dict), or lists terms, known or not.
FactCheckOutcomes ==
    {[kind |-> "raise", terms |-> <<>>]}
    \cup {[kind |-> "terms", terms |-> ts] : ts \in {<<>>, <<"tx", "t2">>}}

RECURSIVE VerifiedOf(_, _)
VerifiedOf(terms, concepts) ==
    IF terms = <<>> THEN <<>>
    ELSE LET matches == {i \in 1..Len(concepts) : concepts[i].term = Head(terms)}
         IN  IF matches = {}
             THEN VerifiedOf(Tail(terms), concepts)
             ELSE LET original == concepts[CHOOSE i \in matches : \A j \in matches : j <= i]
                  IN  <<Concept(Head(terms), "verified", original.code_snippet)>>
                      \o VerifiedOf(Tail(terms), concepts)

\* FactCheckAgent.verify_concepts: the concepts of the answer whose term is
\* one of the originals; the originals themselves when the call fails.
verify_concepts(concepts, out) ==
    IF concepts = <<>> THEN <<>>
    ELSE IF out.kind = "raise" THEN concepts
    ELSE VerifiedOf(out.terms, concepts)

\* The window of find_similar, in questions.
LookbackCount == 100

Max(a, b) == IF a >= b THEN a ELSE b

\* Embedding similarity at threshold 0.85: a text is similar to itself; the
\* texts of the model are otherwise unrelated.
Similar(a, b) == a = b

\* A search over the whole collection.
find_similar_everywhere(h, seq, text, lookback_count) ==
    {i \in 1..Len(h) : Similar(h[i].text, text)}

\* VectorHistoryManager.find_similar: the entries with a similar text among
\* those with seq_id > max(0, current_seq_id - lookback_count)
find_similar(h, seq, text, lookback_count) ==
    {i \in 1..Len(h) : h[i].seq_id > Max(0, seq - lookback_count) /\ Similar(h[i].text, text)}

\* OrchestratorAgent._update_history with VectorHistoryManager.add_questions:
\* the questions without a similar entry are added, each with the next seq_id.
AddQuestions(h, seq, qs) ==
    [history |-> h \o [i \in 1..Len(qs) |-> [text |-> qs[i].question, seq_id |-> seq + i]],
     seq |-> seq + Len(qs)]

\* An update that keeps only the questions of the last batch.
_update_history_replace(h, seq, new_questions) ==
    AddQuestions(<<>>, seq, new_questions)

_update_history(h, seq, new_questions) ==
    LET unique == SelectSeq(new_questions, LAMBDA q : find_similar(h, seq, q.question, LookbackCount) = {})
    IN  AddQuestions(h, seq, unique)

-----------------------------------------------------------------------------
(* OrchestratorAgent._analyze_content *)

W_theory == <<"t", "h", "e", "o", "r", "y">>
W_code == <<"c", "o", "d", "e">>
W_math == <<"m", "a", "t", "h">>
W_list == <<"l", "i", "s", "t">>
W_short == <<"s", "h", "o", "r", "t">>
W_garbage == <<"g", "a", "r", "b", "a", "g", "e">>
W_unknown == <<"u", "n", "k", "n", "o", "w", "n">>

\* The values of the enum ContentType
ContentTypeValues == {W_theory, W_code, W_math, W_list, W_short, W_garbage, W_unknown}

\* What generate_json gives _analyze_content: it raises, or returns a list,
\* or a dict with the keys type and complexity (each possibly absent or null).
ClassifyResponses ==
    {[kind |-> "raise", type |-> Missing, complexity |-> Missing],
     [kind |-> "list", type |-> Missing, complexity |-> Missing]}
    \cup {[kind |-> "dict", type |-> ty, complexity |-> cx] :
            ty \in {Missing, NoneV, S(W_theory), S(W_code), S(<<"C", "o", "d", "e">>), S(W_math),
                    S(W_list), S(<<"S", "H", "O", "R", "T">>), S(W_short), S(W_garbage), S(W_unknown),
                    S(<<"p", "o", "e", "m">>), S(<<"c", "o", "d", "e", " ">>)},
            cx \in {Missing}}
    \cup {[kind |-> "dict", type |-> S(W_code), complexity |-> cx] :
            cx \in {NoneV, S(<<"H", "a", "r", "d">>)}}

NoResponse == [kind |-> "none", type |-> Missing, complexity |-> Missing]

\* A mapping that forgets the direct_quiz strategy.
StrategyFor_no_direct(c_type) ==
    IF c_type = W_code THEN "code_practice" ELSE "standard"

\* Lines 479-483
StrategyFor(c_type) ==
    IF c_type = W_code THEN "code_practice"
    ELSE IF c_type \in {W_short, W_list} THEN "direct_quiz"
    ELSE "standard"

\* NoteAnalysis: content_type and recommended_strategy (summary and
\* complexity only feed the logs and the quiz difficulty).
NoteAnalysis(content_type, strategy) ==
    [content_type |-> content_type, recommended_strategy |-> strategy]

NoAnalysis == NoteAnalysis(<<>>, "standard")

\* The except branch of line 502: anything raised inside the try, by
\* generate_json, by response.get on a list, or by .lower() on a type or a
\* complexity that is not a string.
AnalysisRaises(resp) ==
    \/ resp.kind # "dict"
    \/ resp.type.t \notin {"str", "missing"}
    \/ resp.complexity.t \notin {"str", "missing"}

_analyze_content(resp) ==
    IF AnalysisRaises(resp) THEN NoteAnalysis(W_theory, "standard")
    ELSE LET c_type_str == Lower(IF resp.type.t = "missing" THEN W_unknown ELSE Str(resp.type))
             c_type == IF c_type_str \in ContentTypeValues THEN c_type_str ELSE W_theory
         IN  NoteAnalysis(c_type, StrategyFor(c_type))

-----------------------------------------------------------------------------
(* OrchestratorAgent.process_note_pipeline *)

\* A question of the quiz: its id (none before post-processing), its text
\* and its correct answer, both as characters.
Question(id, text, answer) ==
    [question_id |-> id, question |-> text, correct_answer |-> answer]

\* Question texts: two unrelated ones, and the first in another casing.
T1 == <<"W", "h", "a", "t", " ", "i", "s", " ", "X", "?">>
T1_lower == <<"w", "h", "a", "t", " ", "i", "s", " ", "x", "?">>
T2 == <<"Y", "?">>

\* The uuid4 strings of one batch, by position.
QuestionIds == <<"u1", "u2", "u3">>

\* What steps 1 and 2 of _execute_pipeline may give inside generate_questions:
\* the prompt builder raises, generate_json raises, or the validator returns
\* a list of valid questions (empty when nothing survived).
GenerationOutcomes ==
    {[kind |-> "raise", valid |-> <<>>], [kind |-> "llm_error", valid |-> <<>>]}
    \cup {[kind |-> "valid", valid |-> b] : b \in {
            <<>>,
            <<Question("none", T1, <<"a">>), Question("none", T2, W_True)>>,
            <<Question("none", T1, <<"a">>), Question("none", T1_lower, W_True)>>,
            <<Question("none", T1, <<"a">>), Question("none", T2, W_True),
              Question("none", T1_lower, W_False)>>}}

\* A filter that lets every question through.
_validate_unique_keeps_all(questions, avoid_history) == questions

\* QuizAgent._validate_unique: the first question of each text, ignoring
\* case.  The parameter history is not read.
RECURSIVE UniqueInBatch(_, _)
UniqueInBatch(questions, seen_in_batch) ==
    IF questions = <<>> THEN <<>>
    ELSE LET q == Head(questions)
             text == Strip(q.question)
         IN  IF text = <<>> \/ Lower(text) \in seen_in_batch
             THEN UniqueInBatch(Tail(questions), seen_in_batch)
             ELSE <<q>> \o UniqueInBatch(Tail(questions), seen_in_batch \cup {Lower(text)})

_validate_unique(questions, avoid_history) == UniqueInBatch(questions, {})

\* QuizAgent._post_process_questions: a fresh question_id for each question.
_post_process_questions(questions) ==
    [i \in 1..Len(questions) |-> [questions[i] EXCEPT !.question_id = QuestionIds[i]]]

\* QuizAgent._execute_pipeline, lines 77-93
_execute_pipeline(out, avoid_history) ==
    IF out.kind = "llm_error" THEN <<>>
    ELSE _post_process_questions(_validate_unique(out.valid, avoid_history))

\* The limit of get_recent_questions at line 274
RecentLimit == 15

\* VectorHistoryManager.get_recent_questions: the documents of
\* min(limit, total) entries (the store does not promise which ones).
get_recent_questions(h, limit) ==
    [i \in 1..(IF Len(h) < limit THEN Len(h) ELSE limit) |-> h[i].text]

NoReturn == [kind |-> "none", status |-> "", quiz |-> <<>>, message |-> ""]
ErrorDict(message) == [kind |-> "return", status |-> "error", quiz |-> <<>>, message |-> message]
SuccessDict(quiz) == [kind |-> "return", status |-> "success", quiz |-> quiz, message |-> "ready"]

\* A pipeline without the except clause of line 325.
OuterExcept_propagates(exc) == [kind |-> "raise", status |-> "", quiz |-> <<>>, message |-> exc]

\* Lines 325-330: "except Exception" around the whole body
OuterExcept(exc) == ErrorDict(exc)

\* Line 307 reads cached_verified, a name the method never binds: NameError.
CacheStatus == [kind |-> "raise", exc |-> "NameError"]

\* An order that generates the quiz before it saves the concepts.
StepAfter_generate_first(step) ==
    CASE step = "hot" -> "generate"
      [] step = "classify" -> "extract"
      [] step = "extract" -> "factcheck"
      [] step = "factcheck" -> "generate"
      [] step = "generate" -> "save"
      [] step = "save" -> "history"
      [] step = "history" -> "done"

\* The statement order of the method: the step that follows each step.
StepAfter(step) ==
    CASE step = "hot" -> "generate"
      [] step = "classify" -> "extract"
      [] step = "extract" -> "factcheck"
      [] step = "factcheck" -> "save"
      [] step = "save" -> "generate"
      [] step = "generate" -> "history"
      [] step = "history" -> "done"

\* A fallback rule that keeps the selected strategy.
Fallback_keeps(strategy, concepts) == strategy

\* Lines 239-240
Fallback(strategy, concepts) ==
    IF concepts = <<>> /\ strategy # "direct_quiz" THEN "direct_quiz" ELSE strategy

NoGenArgs == [mode |-> "none", concepts |-> <<>>]

\* Lines 137-155: _reset_session, the hash, and the hot start check.
PipelineStart(note_text, force_reparse) ==
    /\ pc = "idle"
    /\ note' = note_text
    /\ force' = force_reparse
    /\ current_note_hash' = compute_hash(note_text)
    /\ verified_concepts' = <<>>
    /\ current_quiz' = <<>>
    /\ user_score' = 0
    /\ total_questions_answered' = 0
    /\ response' = NoResponse
    /\ analysis' = NoAnalysis
    /\ current_strategy' = "standard"
    /\ extracted' = <<>>
    /\ calls' = <<>>
    /\ llm_extracted' = FALSE
    /\ gen_args' = NoGenArgs
    /\ gen_batch' = <<>>
    /\ gen_valid' = <<>>
    /\ saved' = FALSE
    /\ result' = NoReturn
    /\ pc' = IF ~force_reparse /\ exists(cache, VerifiedKey(compute_hash(note_text)))
             THEN "hot" ELSE "classify"
    /\ UNCHANGED <<factcheck_enabled, cache_enabled, cache, history, current_seq_id>>

\* Lines 155-201: the hot start.  The legacy branch raises on a list whose
\* elements are not dicts (c.get).  Line 158 of the file stops in the middle
\* of the name cached_data, before the colon; it is read here as the test
\* isinstance(cached_data, dict) and "metadata" in cached_data.
HotStart ==
    /\ pc = "hot"
    /\ calls' = Append(calls, "cache_load")
    /\ LET cached_data == load(cache, VerifiedKey(current_note_hash))
       IN  IF cached_data.kind = "v2"
           THEN /\ verified_concepts' = cached_data.concepts
                /\ current_strategy' = cached_data.strategy
                /\ analysis' = analysis
                /\ pc' = StepAfter("hot")
                /\ result' = result
           ELSE LET concepts == IF cached_data.kind = "list" THEN cached_data.concepts ELSE <<>>
                    has_code == \E i \in 1..Len(concepts) : concepts[i].code_snippet
                    strategy == IF has_code THEN "code_practice" ELSE "standard"
                IN  IF \E i \in 1..Len(concepts) : ~concepts[i].dict
                    THEN /\ verified_concepts' = concepts
                         /\ result' = OuterExcept("AttributeError")
                         /\ pc' = "done"
                         /\ UNCHANGED <<current_strategy, analysis>>
                    ELSE /\ verified_concepts' = concepts
                         /\ current_strategy' = strategy
                         /\ analysis' = analysis
                         /\ pc' = StepAfter("hot")
                         /\ result' = result
    /\ UNCHANGED <<note, force, factcheck_enabled, cache_enabled, cache, history,
                   current_seq_id, current_note_hash, current_quiz, user_score,
                   total_questions_answered, response, extracted, llm_extracted,
                   gen_args, gen_batch, gen_valid, saved>>

\* Lines 207-222: the classification and the filter of useless notes.
Classify(resp) ==
    /\ pc = "classify"
    /\ calls' = Append(calls, "classify")
    /\ response' = resp
    /\ analysis' = _analyze_content(resp)
    /\ LET a == _analyze_content(resp)
       IN  IF a.content_type = W_unknown /\ NoteLen(note) < ShortNoteLimit
           THEN result' = ErrorDict("too short") /\ pc' = "done"
                /\ UNCHANGED current_strategy
           ELSE IF a.content_type = W_garbage
           THEN result' = ErrorDict("not informative") /\ pc' = "done"
                /\ UNCHANGED current_strategy
           ELSE /\ current_strategy' = a.recommended_strategy
                /\ pc' = StepAfter("classify")
                /\ result' = result
    /\ UNCHANGED <<note, force, factcheck_enabled, cache_enabled, cache, history,
                   current_seq_id, current_note_hash, verified_concepts, current_quiz,
                   user_score, total_questions_answered, extracted, llm_extracted,
                   gen_args, gen_batch, gen_valid, saved>>

\* Lines 224-240: the extraction of the selected strategy and the fallback.
\* The locals response and analysis are not read by the model after this.
\* ParserAgent has no method parse_code_note: the call raises AttributeError,
\* which line 234 catches.
Extract(out, io_ok) ==
    /\ pc = "extract"
    /\ LET parsed ==
             IF current_strategy = "direct_quiz"
             THEN [kind |-> "return", concepts |-> <<>>, cache |-> cache, llm |-> FALSE]
             ELSE IF current_strategy = "code_practice"
             THEN [kind |-> "raise", concepts |-> <<>>, cache |-> cache, llm |-> FALSE]
             ELSE parse_note(cache, note, cache_enabled, out, io_ok)
           concepts == IF parsed.kind = "raise" THEN <<>> ELSE parsed.concepts
       IN  /\ extracted' = concepts
           /\ cache' = parsed.cache
           /\ llm_extracted' = parsed.llm
           /\ calls' = IF current_strategy = "direct_quiz" THEN calls
                       ELSE Append(calls, "extract")
           /\ current_strategy' = Fallback(current_strategy, concepts)
    /\ response' = NoResponse
    /\ analysis' = NoAnalysis
    /\ pc' = StepAfter("extract")
    /\ UNCHANGED <<note, force, factcheck_enabled, cache_enabled, history,
                   current_seq_id, current_note_hash, verified_concepts, current_quiz,
                   user_score, total_questions_answered, gen_args,
                   gen_batch, gen_valid, saved, result>>

\* Lines 243-246
FactCheck(out) ==
    /\ pc = "factcheck"
    /\ IF extracted # <<>> /\ factcheck_enabled
       THEN /\ verified_concepts' = verify_concepts(extracted, out)
            /\ calls' = Append(calls, "factcheck")
       ELSE /\ verified_concepts' = extracted
            /\ calls' = calls
    /\ pc' = StepAfter("factcheck")
    /\ UNCHANGED <<note, force, factcheck_enabled, cache_enabled, cache, history,
                   current_seq_id, current_note_hash, current_quiz, user_score,
                   total_questions_answered, response, analysis, current_strategy,
                   extracted, llm_extracted, gen_args, gen_batch, gen_valid, saved, result>>

\* Lines 249-265
CacheSave(io_ok) ==
    /\ pc = "save"
    /\ IF verified_concepts # <<>>
       THEN /\ cache' = save(cache, VerifiedKey(current_note_hash),
                             V2File(current_strategy, verified_concepts), io_ok)
            /\ calls' = Append(calls, "cache_save")
            /\ saved' = io_ok
       ELSE UNCHANGED <<cache, calls, saved>>
    /\ pc' = StepAfter("save")
    /\ UNCHANGED <<note, force, factcheck_enabled, cache_enabled, history,
                   current_seq_id, current_note_hash, verified_concepts, current_quiz,
                   user_score, total_questions_answered, response, analysis,
                   current_strategy, extracted, llm_extracted, gen_args, gen_batch, gen_valid,
                   result>>

\* Lines 274-302
Generate(out) ==
    /\ pc = "generate"
    /\ calls' = Append(calls, "generate")
    /\ gen_args' = [mode |-> current_strategy, concepts |-> verified_concepts]
    /\ gen_valid' = out.valid
    /\ LET history_to_use == get_recent_questions(history, RecentLimit)
           batch == _execute_pipeline(out, history_to_use)
       IN  IF out.kind = "raise"
           THEN /\ gen_batch' = <<>>
                /\ result' = OuterExcept("Exception") /\ pc' = "done"
                /\ UNCHANGED current_quiz
           ELSE /\ gen_batch' = batch
                /\ current_quiz' = batch
                /\ IF batch = <<>>
                   THEN result' = ErrorDict("no questions") /\ pc' = "done"
                   ELSE result' = result /\ pc' = StepAfter("generate")
    /\ UNCHANGED <<note, force, factcheck_enabled, cache_enabled, cache, history,
                   current_seq_id, current_note_hash, verified_concepts, user_score,
                   total_questions_answered, response, analysis, current_strategy,
                   extracted, llm_extracted, saved>>

\* Lines 305-323: _update_history, the message and the success dict.
UpdateHistoryAndReturn ==
    /\ pc = "history"
    /\ calls' = Append(calls, "history")
    /\ LET h == _update_history(history, current_seq_id, current_quiz)
       IN  history' = h.history /\ current_seq_id' = h.seq
    /\ result' = IF CacheStatus.kind = "raise"
                 THEN OuterExcept(CacheStatus.exc)
                 ELSE SuccessDict(current_quiz)
    /\ pc' = StepAfter("history")
    /\ UNCHANGED <<note, force, factcheck_enabled, cache_enabled, cache,
                   current_note_hash, verified_concepts, current_quiz, user_score,
                   total_questions_answered, response, analysis, current_strategy,
                   extracted, llm_extracted, gen_args, gen_batch, gen_valid, saved>>

\* The call is over: the caller has its result and the locals are gone.
PipelineReturn ==
    /\ pc = "done"
    /\ pc' = "idle"
    /\ note' = "none"
    /\ force' = FALSE
    /\ response' = NoResponse
    /\ analysis' = NoAnalysis
    /\ current_strategy' = "standard"
    /\ extracted' = <<>>
    /\ calls' = <<>>
    /\ llm_extracted' = FALSE
    /\ gen_args' = NoGenArgs
    /\ gen_batch' = <<>>
    /\ gen_valid' = <<>>
    /\ result' = NoReturn
    /\ UNCHANGED <<factcheck_enabled, cache_enabled, cache, history,
                   current_seq_id, current_note_hash, verified_concepts, current_quiz,
                   user_score, total_questions_answered, saved>>

\* The cache directory the process finds: empty, or holding for N1 a legacy
\* list, a list of non-dicts or an unreadable file under the verified key.
InitialCaches ==
    LET empty == [k \in CacheKeys |-> NoFile]
        vkey == VerifiedKey(compute_hash("N1"))
    IN  {empty,
         [empty EXCEPT ![vkey] = CorruptFile],
         [empty EXCEPT ![vkey] = ListFile(<<Concept("t1", "legacy", TRUE)>>)],
         [empty EXCEPT ![vkey] = ListFile(<<NotAConcept>>)]}

PipelineIdle ==
    /\ pc = "idle"
    /\ note = "none"
    /\ force = FALSE
    /\ history = <<>>
    /\ current_seq_id = 0
    /\ current_note_hash = <<>>
    /\ verified_concepts = <<>>
    /\ current_quiz = <<>>
    /\ user_score = 0
    /\ total_questions_answered = 0
    /\ response = NoResponse
    /\ analysis = NoAnalysis
    /\ current_strategy = "standard"
    /\ extracted = <<>>
    /\ calls = <<>>
    /\ llm_extracted = FALSE
    /\ gen_args = NoGenArgs
    /\ gen_batch = <<>>
    /\ gen_valid = <<>>
    /\ saved = FALSE
    /\ result = NoReturn

-----------------------------------------------------------------------------
(* OrchestratorAgent.submit_answer *)

\* The ids and answers a user submits: the ids of the batch and one unknown
\* id; for each stored answer a text equal to it up to case and surrounding
\* whitespace, and one answer that matches nothing.
SubmittedIds == {"u1", "u2", "zz"}
UserAnswers == {<<" ", "A", " ">>, <<"t", "r", "u", "e">>, <<"b">>}

\* ExplainAgent.explain_error(self, user_answer, correct_answer, question,
\* concept=None), and the keywords of the call in submit_answer.
ExplainParams == {"user_answer", "correct_answer", "question", "concept"}
ExplainRequired == {"user_answer", "correct_answer", "question"}
ExplainKeywords == {"question_text", "user_ans", "correct_ans"}

\* Python binds a keyword call when every keyword names a parameter and
\* every parameter without a default gets a value; otherwise TypeError.
Binds(keywords, params, required) ==
    keywords \subseteq params /\ required \subseteq keywords

\* What the LLM call inside explain_error comes to.
ExplainOutcomes == {"success", "error"}

\* explain_error: the body validates, asks the LLM and returns a dict with
\* the keys status, explanation, mnemonic_image (or status, message); it
\* catches every exception of its own body.
explain_error(keywords, out) ==
    IF ~Binds(keywords, ExplainParams, ExplainRequired)
    THEN [kind |-> "raise", exc |-> "TypeError", trace |-> <<"explain_error">>,
          keys |-> {}]
    ELSE [kind |-> "return", exc |-> "none",
          trace |-> <<"explain_error", "llm_generate">>,
          keys |-> IF out = "success"
                   THEN {"status", "explanation", "mnemonic_image"}
                   ELSE {"status", "message"}]

\* A lookup that answers with the first question of the batch whatever the
\* id.
_find_question_by_id_any(quiz, q_id) ==
    IF quiz # <<>>
    THEN [found |-> TRUE, question |-> quiz[1]]
    ELSE [found |-> FALSE, question |-> Question("none", <<>>, <<>>)]

\* Lines 541-546
_find_question_by_id(quiz, q_id) ==
    IF \E i \in 1..Len(quiz) : quiz[i].question_id = q_id
    THEN LET i == CHOOSE i \in 1..Len(quiz) :
                    /\ quiz[i].question_id = q_id
                    /\ \A j \in 1..(i - 1) : quiz[j].question_id # q_id
         IN  [found |-> TRUE, question |-> quiz[i]]
    ELSE [found |-> FALSE, question |-> Question("none", <<>>, <<>>)]

\* A comparison that takes the answer as typed.
AnswersMatch_exact(user_answer, correct_answer) == user_answer = correct_answer

\* Line 360
AnswersMatch(user_answer, correct_answer) ==
    Strip(Lower(user_answer)) = Strip(Lower(correct_answer))

NoSubmit == [question_id |-> "none", user_answer |-> <<>>]
NoAnswer == [status |-> "none", is_correct |-> FALSE, score |-> 0, explanation |-> "none"]

AnswerIdle ==
    /\ submitted = NoSubmit
    /\ answer_result = NoAnswer
    /\ explain_calls = <<>>

\* Lines 347-421: the whole call.  The explanation of the result is "text"
\* when explain_error returned a dict with the key explanation_text, "empty"
\* when it returned one without it, "fallback" when the call raised.
SubmitAnswer(question_id, user_answer, out) ==
    /\ pc = "idle"
    /\ total_questions_answered < MaxAnswers
    /\ pc' = "answered"
    /\ submitted' = [question_id |-> question_id, user_answer |-> user_answer]
    /\ LET q == _find_question_by_id(current_quiz, question_id)
           is_correct == AnswersMatch(user_answer, q.question.correct_answer)
           score == IF is_correct THEN user_score + 1 ELSE user_score
           explanation_data == explain_error(ExplainKeywords, out)
       IN  IF ~q.found
           THEN /\ answer_result' = [NoAnswer EXCEPT !.status = "error"]
                /\ explain_calls' = <<>>
                /\ UNCHANGED <<user_score, total_questions_answered>>
           ELSE /\ total_questions_answered' = total_questions_answered + 1
                /\ user_score' = score
                /\ explain_calls' = IF is_correct THEN <<>> ELSE explanation_data.trace
                /\ answer_result' =
                      [status |-> IF is_correct THEN "correct" ELSE "incorrect",
                       is_correct |-> is_correct,
                       score |-> score,
                       explanation |->
                          IF is_correct THEN "none"
                          ELSE IF explanation_data.kind = "raise" THEN "fallback"
                          ELSE IF "explanation_text" \in explanation_data.keys THEN "text"
                          ELSE "empty"]
    /\ UNCHANGED <<note, force, factcheck_enabled, cache_enabled, cache, history,
                   current_seq_id, current_note_hash, verified_concepts, current_quiz,
                   response, analysis, current_strategy, extracted, calls,
                   llm_extracted, gen_args, gen_batch, gen_valid, saved, result>>

\* The call is over: the caller has its result.
AnswerReturn ==
    /\ pc = "answered"
    /\ pc' = "idle"
    /\ submitted' = NoSubmit
    /\ answer_result' = NoAnswer
    /\ explain_calls' = <<>>
    /\ UNCHANGED pvars_but_pc

-----------------------------------------------------------------------------
(* VectorHistoryManager on its own *)

\* n_results of the query (limit=5)
FindLimit == 5

\* A batch as long as the default window, of questions unrelated to the
\* others.
FillerText == <<"f">>
FillerBatch == [i \in 1..LookbackCount |-> Question("f", FillerText, <<"a">>)]

\* The batches added and the windows asked for.
AddedBatches ==
    {<<Question("u1", T1, <<"a">>)>>, <<Question("u1", T2, <<"a">>)>>, FillerBatch}
LookbackCounts == {1, 2, LookbackCount}

NoFind == [text |-> <<>>, lookback_count |-> 0]

HistoryOpsIdle ==
    /\ find_args = NoFind
    /\ found = {}

Min(a, b) == IF a <= b THEN a ELSE b

\* add_questions(questions)
HistoryAdd(questions) ==
    /\ current_seq_id + Len(questions) <= MaxSeqId
    /\ questions # FillerBatch =>
          Cardinality({i \in 1..Len(history) : history[i].text # FillerText}) < MaxAsked
    /\ LET h == AddQuestions(history, current_seq_id, questions)
       IN  history' = h.history /\ current_seq_id' = h.seq
    /\ find_args' = NoFind
    /\ found' = {}

\* find_similar(question_text, lookback_count=...): the query gives the
\* nearest FindLimit entries of the window, the threshold keeps the similar
\* ones of them.
HistoryFind(question_text, lookback_count) ==
    /\ find_args' = [text |-> question_text, lookback_count |-> lookback_count]
    /\ LET similar == find_similar(history, current_seq_id, question_text, lookback_count)
       IN  \E reported \in SUBSET similar :
              /\ Cardinality(reported) = Min(FindLimit, Cardinality(similar))
              /\ found' = reported
    /\ UNCHANGED <<history, current_seq_id>>

-----------------------------------------------------------------------------
(* Claims about CacheManager *)

None == [kind |-> "none"]

\* The last call removed: a delete, or a clear without an age limit.
Removed(k) ==
    \/ cache_op.op = "delete" /\ cache_op.key = k
    \/ cache_op.op = "clear" /\ cache_op.max_age_days = NoLimit

JsonNative(v) ==
    v.kind = "dict" => \A i \in 1..Len(v.keys) : v.keys[i].t = "str"

-----------------------------------------------------------------------------
(* Claims about VectorHistoryManager *)

\* The entries find_similar compares with, for the window asked.
Window(lookback_count) ==
    {i \in 1..Len(history) : history[i].seq_id > current_seq_id - lookback_count}

-----------------------------------------------------------------------------
(* Claims about submit_answer *)

\* A submit_answer call runs in this step, for a question of the batch.
SubmitsFound ==
    /\ pc = "idle"
    /\ pc' = "answered"
    /\ _find_question_by_id(current_quiz, submitted'.question_id).found

\* The stored correct answer of the question submitted in this step.
StoredAnswer ==
    _find_question_by_id(current_quiz, submitted'.question_id).question.correct_answer

\* The submitted answer is the stored one up to case and outer whitespace.
MatchesStored ==
    Strip(Lower(submitted'.user_answer)) = Strip(Lower(StoredAnswer))

\* C14: a submitted answer equal to the stored correct answer up to letter
\* case and surrounding whitespace raises the score by exactly 1 and the
\* explanation generator is not called.
C14_CorrectAnswerScores ==
    [][(SubmitsFound /\ MatchesStored) =>
          /\ user_score' = user_score + 1
          /\ explain_calls' = <<>>
          /\ answer_result'.status = "correct"
          /\ answer_result'.score = user_score + 1]_vars

\* C14 witness: " A " was submitted for the question whose answer is "a",
\* and counted.
C14_Witness ==
    /\ pc = "answered"
    /\ submitted.user_answer = <<" ", "A", " ">>
    /\ _find_question_by_id(current_quiz, submitted.question_id).found
    /\ _find_question_by_id(current_quiz, submitted.question_id).question.correct_answer
          = <<"a">>
    /\ answer_result.status = "correct"
    /\ user_score = 1
    /\ explain_calls = <<>>

\* A submit_answer call runs in this step, for an id that no question of
\* the batch has.
SubmitsUnknown ==
    /\ pc = "idle"
    /\ pc' = "answered"
    /\ \A i \in 1..Len(current_quiz) : current_quiz[i].question_id # submitted'.question_id

\* C26: submit_answer with an id that is not in the batch returns status
\* "error", leaves user_score, total_questions_answered and current_quiz,
\* and does not call the explanation generator.
C26_UnknownIdChangesNothing ==
    [][SubmitsUnknown =>
          /\ answer_result'.status = "error"
          /\ user_score' = user_score
          /\ total_questions_answered' = total_questions_answered
          /\ current_quiz' = current_quiz
          /\ explain_calls' = <<>>]_vars

\* C26 witness: after one counted answer, the id "zz" was submitted against
\* a batch that has no such question; the score and the counter stand at 1.
C26_Witness ==
    /\ pc = "answered"
    /\ submitted.question_id = "zz"
    /\ current_quiz # <<>>
    /\ \A i \in 1..Len(current_quiz) : current_quiz[i].question_id # "zz"
    /\ answer_result.status = "error"
    /\ user_score = 1
    /\ total_questions_answered = 1
    /\ explain_calls = <<>>

\* C27: user_score never exceeds the number of questions of the current
\* quiz.
C27_ScoreWithinQuiz == user_score <= Len(current_quiz)

\* C15: a submitted answer that does not match the stored one leaves the
\* score, adds exactly 1 to the answered counter, reports "incorrect", and
\* the explanation generator runs exactly once.
C15_WrongAnswerExplains ==
    [][(SubmitsFound /\ ~MatchesStored) =>
          /\ user_score' = user_score
          /\ total_questions_answered' = total_questions_answered + 1
          /\ answer_result'.status = "incorrect"
          /\ explain_calls' = <<"explain_error", "llm_generate">>]_vars

-----------------------------------------------------------------------------
(* Claims about process_note_pipeline *)

InSeq(x, sq) == \E i \in 1..Len(sq) : sq[i] = x

\* The running call took the cold branch (line 203).
IsColdRun == pc \notin {"idle", "hot", "answered"} /\ ~InSeq("cache_load", calls)

\* The running call took the hot branch (line 152).
IsHotRun == pc # "idle" /\ (pc = "hot" \/ InSeq("cache_load", calls))

\* C3: process_note_pipeline ends by returning a dict whose status is
\* "success" or "error" (an error with its message), never by raising.
C3_NeverPropagates ==
    pc = "done" =>
        /\ result.kind = "return"
        /\ result.status \in {"success", "error"}
        /\ result.status = "error" => result.message # ""

\* C3 witness: the hot start raised on an unusable cache entry and the call
\* returned an error dict.
C3_Witness ==
    /\ pc = "done"
    /\ calls = <<"cache_load">>
    /\ result = ErrorDict("AttributeError")

\* C4: when generate_questions returned at least one question the call
\* returns status "success" with that batch as the quiz.
C4_SuccessWhenQuestions ==
    (pc = "done" /\ gen_batch # <<>>) =>
        /\ result.kind = "return"
        /\ result.status = "success"
        /\ result.quiz = gen_batch

\* C13: the batch generate_questions returns holds no question whose text
\* is in the history, in the same or another casing; a batch of distinct
\* questions that are all unrelated to the history is returned as validated.
C13_DedupAgainstHistory ==
    pc = "history" =>
        LET InHistory(text) ==
                \E i \in 1..Len(history) : Lower(history[i].text) = Lower(text)
            Distinct(qs) ==
                \A i, j \in 1..Len(qs) :
                    i # j => Lower(qs[i].question) # Lower(qs[j].question)
            Texts(qs) == [i \in 1..Len(qs) |-> qs[i].question]
        IN  /\ \A k \in 1..Len(gen_batch) : ~InHistory(gen_batch[k].question)
            /\ (/\ Distinct(gen_valid)
                /\ \A k \in 1..Len(gen_valid) : ~InHistory(gen_valid[k].question))
                  => Texts(gen_batch) = Texts(gen_valid)

\* The place of each collaborator call in the cold-start order.
Rank(call) ==
    CASE call = "classify" -> 1
      [] call = "extract" -> 2
      [] call = "factcheck" -> 3
      [] call = "cache_save" -> 4
      [] call = "generate" -> 5
      [] call = "history" -> 6
      [] OTHER -> 0

StartsRerun ==
    /\ pc = "idle"
    /\ pc' # "idle"
    /\ current_note_hash = compute_hash(note')
    /\ ~force'

\* The running call has called neither the extraction nor the fact-check and
\* works with the concepts of the cache entry.
LoadsFromCache ==
    /\ ~InSeq("extract", calls)
    /\ ~InSeq("factcheck", calls)
    /\ ~llm_extracted
    /\ (pc # "hot" /\ load(cache, VerifiedKey(current_note_hash)).kind = "v2") =>
          verified_concepts = load(cache, VerifiedKey(current_note_hash)).concepts

\* C6 as stated: the second run on the same note takes the hot branch, loads
\* from the cache and calls neither the extraction nor the fact-check.
C6_SecondRunSkips ==
    /\ [][StartsRerun => pc' = "hot"]_vars
    /\ [](IsHotRun => LoadsFromCache)

\* C6 amended: when the first run has saved the verified concepts, the second
\* run takes the hot branch, works with the concepts of the cache entry and
\* calls neither the extraction nor the fact-check.
C6_SecondRunAfterSave ==
    /\ [][(StartsRerun /\ saved) => pc' = "hot"]_vars
    /\ [](IsHotRun => LoadsFromCache)

\* C6 witness: the second run is about to generate from the concepts the
\* first run saved.
C6_Witness ==
    /\ pc = "generate"
    /\ ~force
    /\ calls = <<"cache_load">>
    /\ cache[VerifiedKey(current_note_hash)].kind = "v2"
    /\ verified_concepts = cache[VerifiedKey(current_note_hash)].concepts
    /\ verified_concepts # <<>>

\* A call starts, without force_reparse, on a note for which the cache
\* gives no value: the verified entry is absent or load returns None.
StartsWithoutCachedValue ==
    /\ pc = "idle"
    /\ pc' \notin {"idle", "answered"}
    /\ ~force'
    /\ load(cache, VerifiedKey(compute_hash(note'))) = None

\* C17: a call that gets no usable value from the cache runs the cold start,
\* and a cold run that goes on without the extraction call is one whose
\* classification chose direct_quiz; a missing or unreadable entry never
\* makes the run skip the extraction.
C17_CacheIsMemoization ==
    /\ [][StartsWithoutCachedValue => pc' = "classify"]_vars
    /\ [](pc = "hot" => load(cache, VerifiedKey(current_note_hash)) # None)
    /\ []((/\ IsColdRun
           /\ pc \in {"factcheck", "save", "generate", "history"}
           /\ ~InSeq("extract", calls)) => current_strategy = "direct_quiz")

C7_FallbackDirectQuiz ==
    (IsColdRun /\ InSeq("generate", calls) /\ extracted = <<>>) =>
        gen_args.mode = "direct_quiz"

\* C7 witness: the parser was called for a standard note, the LLM gave no
\* concept, and the quiz was generated in direct_quiz mode.
C7_Witness ==
    /\ IsColdRun
    /\ calls = <<"classify", "extract", "generate">>
    /\ llm_extracted
    /\ extracted = <<>>
    /\ gen_args.mode = "direct_quiz"

\* C8: the analysis is a function of the classified type: code gives
\* code_practice, short and list give direct_quiz, anything else standard;
\* a classification that fails gives the type theory with standard.
C8_StrategyOfType ==
    response.kind # "none" =>
        LET failed == \/ response.kind \in {"raise", "list"}
                      \/ response.type.t \in {"none", "int"}
                      \/ response.complexity.t \in {"none", "int"}
            type == IF response.type.t = "missing" THEN W_unknown
                    ELSE Lower(response.type.s)
        IN  /\ failed => analysis = NoteAnalysis(W_theory, "standard")
            /\ (~failed /\ type = W_code) =>
                  analysis = NoteAnalysis(W_code, "code_practice")
            /\ (~failed /\ type \in {W_short, W_list}) =>
                  analysis = NoteAnalysis(type, "direct_quiz")
            /\ (~failed /\ type \notin {W_code, W_short, W_list}) =>
                  analysis.recommended_strategy = "standard"

\* C8 witness: the type "SHORT" was classified as short with direct_quiz.
C8_Witness ==
    /\ pc = "extract"
    /\ response.kind = "dict"
    /\ response.type = S(<<"S", "H", "O", "R", "T">>)
    /\ analysis = NoteAnalysis(W_short, "direct_quiz")

\* A run started with force_reparse=True never takes the hot branch.
ForcedRunIsCold ==
    (force /\ pc \notin {"idle", "answered"}) =>
        /\ pc # "hot"
        /\ ~InSeq("cache_load", calls)

\* C22: a run started with force_reparse=True takes the cold path, and the
\* concepts it extracted come from an LLM extraction call of that run,
\* not from a cache entry.
C22_ForceReparseIsFresh ==
    /\ ForcedRunIsCold
    /\ (force /\ extracted # <<>>) => llm_extracted

\* The generation call of this run was handed no concept yet a mode that
\* builds its prompt from the concepts.
ConceptModeWithoutConcepts ==
    /\ InSeq("generate", calls)
    /\ gen_args.concepts = <<>>
    /\ gen_args.mode \in {"standard", "code_practice"}

\* C23: generate_questions is never called in standard or code_practice
\* mode with an empty concept list, on the hot path or on the cold path.
C23_NoConceptModeWithoutConcepts == ~ConceptModeWithoutConcepts

\* The cold path alone, and the hot path alone.
ColdRunHasConceptsForMode == IsColdRun => ~ConceptModeWithoutConcepts
HotRunHasConceptsForMode == IsHotRun => ~ConceptModeWithoutConcepts

\* The verified entries of the cache.
VerifiedKeys == {VerifiedKey(compute_hash(n)) : n \in Notes}

\* C24: a verified entry is written only by the cache-save step of a cold
\* run, and what is written is the V2 envelope of that run's verified
\* concepts and of its strategy after the fallback; a hot run writes no
\* cache entry; and a hot run that loaded a V2 entry passes the entry's
\* concepts and strategy to question generation.
C24_HotStartRestores ==
    /\ [][\A k \in VerifiedKeys :
            cache'[k] # cache[k] =>
                /\ pc = "save"
                /\ IsColdRun
                /\ k = VerifiedKey(current_note_hash)
                /\ cache'[k].kind = "v2"
                /\ cache'[k].concepts = verified_concepts
                /\ cache'[k].strategy = current_strategy
                /\ current_strategy = Fallback(current_strategy, extracted)]_vars
    /\ [][IsHotRun => cache' = cache]_vars
    /\ []((/\ IsHotRun
           /\ InSeq("generate", calls)
           /\ load(cache, VerifiedKey(current_note_hash)).kind = "v2") =>
              /\ gen_args.concepts = load(cache, VerifiedKey(current_note_hash)).concepts
              /\ gen_args.mode = load(cache, VerifiedKey(current_note_hash)).strategy)

\* C24 witness: a hot run has generated from the concepts and the strategy
\* of the V2 entry that an earlier cold run saved.
C24_Witness ==
    /\ IsHotRun
    /\ calls = <<"cache_load", "generate">>
    /\ cache[VerifiedKey(current_note_hash)].kind = "v2"
    /\ gen_args.concepts = cache[VerifiedKey(current_note_hash)].concepts
    /\ gen_args.mode = cache[VerifiedKey(current_note_hash)].strategy
    /\ gen_args.concepts # <<>>

\* C25: with fact-checking enabled, every concept of an entry stored under
\* a verified key came out of the fact-check answer (verify_concepts
\* builds those, the model marking their definition "verified"); the
\* concepts of a failed fact-check call are never stored as verified.
C25_VerifiedOnlyAfterFactCheck ==
    factcheck_enabled =>
        \A k \in VerifiedKeys :
            cache[k].kind = "v2" =>
                \A i \in 1..Len(cache[k].concepts) :
                    cache[k].concepts[i].definition = "verified"

\* The positions of a list of questions that hold the first occurrence of
\* their text, letter case ignored.
FirstOccurrences(questions) ==
    {i \in 1..Len(questions) :
        \A j \in 1..(i - 1) : Lower(questions[j].question) # Lower(questions[i].question)}

\* The k-th of these positions, counted from the front.
KthFirstOccurrence(questions, k) ==
    CHOOSE i \in FirstOccurrences(questions) :
        Cardinality({j \in FirstOccurrences(questions) : j <= i}) = k

\* C28: in the batch a generation returns no two questions have the same
\* text ignoring letter case, and the batch is made of the first occurrence
\* of each text of the validated list, in the order of that list.
C28_UniqueWithinBatch ==
    InSeq("generate", calls) =>
        /\ \A i, j \in 1..Len(gen_batch) :
              i # j => Lower(gen_batch[i].question) # Lower(gen_batch[j].question)
        /\ Len(gen_batch) = Cardinality(FirstOccurrences(gen_valid))
        /\ \A k \in 1..Len(gen_batch) :
              [gen_batch[k] EXCEPT !.question_id = "none"]
                  = gen_valid[KthFirstOccurrence(gen_valid, k)]

\* C28 witness: of the validated questions T1, T2 and T1 in lower case the
\* batch holds T1 and T2, in that order.
C28_Witness ==
    /\ InSeq("generate", calls)
    /\ Len(gen_valid) = 3
    /\ gen_valid[3].question = T1_lower
    /\ Len(gen_batch) = 2
    /\ gen_batch[1].question = T1
    /\ gen_batch[2].question = T2

-----------------------------------------------------------------------------
(* Inputs of the validator *)

\* Raw option values an LLM answer may carry: spellings of two options that
\* differ in case and padding, a blank, None and a number.
OptionValues == {
    S(<<"a">>), S(<<"A">>), S(<<" ", "b">>), S(<<"B", " ">>), S(<<" ">>), NoneV, I(<<"1">>)}

RECURSIVE SeqsUpTo(_, _)
SeqsUpTo(set, n) ==
    IF n = 0 THEN {<<>>}
    ELSE LET shorter == SeqsUpTo(set, n - 1)
         IN  shorter \cup {Append(sq, x) : sq \in {t \in shorter : Len(t) = n - 1}, x \in set}

OptionLists ==
    {L(items) : items \in SeqsUpTo(OptionValues, MaxOptions)}
    \cup {MissingList, NoneList, NotAList}

QuestionTexts == {
    Missing, S(<<" ">>), S(<<"Q", "1">>), S(<<" ", "q", "1", " ">>), S(<<"Q", "2">>)}

\* Question texts around the cap of 300 characters.
LongText(n) == [i \in 1..n |-> "x"]
LongQuestionTexts == {
    S(LongText(QuestionKeep + 1)), S(LongText(QuestionCap)), S(LongText(QuestionCap + 1)),
    S(<<" ">> \o LongText(QuestionKeep - 1) \o <<" ", "y", "y", "y", "y">>)}

MultipleChoiceAnswers == {
    Missing, NoneV, S(<<>>), S(<<"a">>), S(<<"A", " ">>), S(<<"b">>), S(<<"c">>), I(<<"1">>)}

TrueFalseAnswers == {
    Missing, NoneV, S(<<"T", "r", "u", "e">>), S(<<" ", "F", "A", "L", "S", "E">>), S(<<"y", "e", "s">>), S(<<"N", "o", " ">>),
    I(<<"1">>), I(<<"0">>), S(<<"U+0414", "U+0430">>), S(<<"U+043D", "U+0435", "U+0442">>),
    S(<<"m", "a", "y", "b", "e">>), S(<<"a">>)}

MultipleChoiceTypes == {S(<<"c", "h", "o", "i", "c", "e">>), S(<<" ", "M", "u", "l", "t", "i", "p", "l", "e", "_", "C", "h", "o", "i", "c", "e">>)}
TrueFalseTypes == {S(<<"T", "F">>), S(<<"b", "o", "o", "l", "e", "a", "n">>), S(<<"t", "r", "u", "e", "_", "f", "a", "l", "s", "e">>)}
OtherTypes == {Missing, NoneV, S(<<"e", "s", "s", "a", "y">>)}

\* Every raw element the model feeds the validator.
RawRecords ==
    {Rec(qt, ty, Missing, ol, an) :
        qt \in {S(<<"Q", "1">>), S(<<" ">>)}, ty \in MultipleChoiceTypes,
        ol \in OptionLists, an \in MultipleChoiceAnswers}
    \cup {Rec(qt, ty, rc, ol, an) :
        qt \in QuestionTexts, ty \in TrueFalseTypes, rc \in {Missing, S(<<"t", "1", " ">>)},
        ol \in {MissingList, NotAList, L(<<S(<<"a">>)>>), L(<<S(W_False), S(W_True)>>)},
        an \in TrueFalseAnswers}
    \cup {Rec(S(<<"Q", "1">>), ty, Missing, L(<<S(<<"a">>), S(<<"b">>)>>), S(<<"a">>)) :
        ty \in OtherTypes}
    \cup {Rec(qt, S(<<"T", "F">>), Missing, MissingList, S(<<"y", "e", "s">>)) :
        qt \in LongQuestionTexts}
    \cup {NotADict}

\* A few records of each kind, for the batches of more than one element.
SampleRecords == {
    Rec(S(<<"Q", "1">>), S(<<"c", "h", "o", "i", "c", "e">>), Missing,
        L(<<S(<<"a">>), S(<<"A">>), S(<<" ", "b">>)>>), S(<<"B">>)),
    Rec(S(<<" ", "q", "1", " ">>), S(<<"T", "F">>), Missing,
        L(<<S(<<"a">>)>>), S(<<"y", "e", "s">>)),
    Rec(S(<<"Q", "2">>), S(<<"c", "h", "o", "i", "c", "e">>), Missing,
        L(<<S(<<"a">>), S(<<"b">>)>>), S(<<"c">>)),
    Rec(S(<<"Q", "2">>), S(<<"b", "o", "o", "l", "e", "a", "n">>), S(<<"t", "1", " ">>),
        MissingList, I(<<"0">>)),
    NotADict}

RawBatches ==
    {<<r>> : r \in RawRecords} \cup SeqsUpTo(SampleRecords, MaxBatch)

-----------------------------------------------------------------------------
(* Claims about the validator *)

IsMultipleChoice(q) == q.type = S(W_multiple_choice)
IsTrueFalse(q) == q.type = S(W_true_false)

\* C9: every multiple_choice question of the validated list has its
\* correct_answer among its options, by exact string equality.
C9_AnswerAmongOptions ==
    \A k \in 1..Len(valid_questions) :
        IsMultipleChoice(valid_questions[k]) =>
            \E i \in 1..Len(valid_questions[k].options.items) :
                valid_questions[k].options.items[i] = valid_questions[k].correct_answer

\* C9 witness: a record whose answer "A " matches the option "a" only after
\* strip and lower survived, with the answer rewritten to "a".
C9_Witness ==
    /\ qz_pc = "validated"
    /\ Len(raw_questions) = 1
    /\ Len(valid_questions) = 1
    /\ IsMultipleChoice(valid_questions[1])
    /\ raw_questions[1].correct_answer = S(<<"A", " ">>)
    /\ raw_questions[1].options = L(<<S(<<"a">>), S(<<" ", "b">>)>>)
    /\ valid_questions[1].correct_answer = S(<<"a">>)

\* C10: every true_false question of the validated list has the options
\* ["True", "False"] and the correct_answer "True" or "False".
C10_TrueFalseCanonical ==
    \A k \in 1..Len(valid_questions) :
        IsTrueFalse(valid_questions[k]) =>
            /\ valid_questions[k].options = L(<<S(W_True), S(W_False)>>)
            /\ valid_questions[k].correct_answer \in {S(W_True), S(W_False)}

\* C10 witness: a record with the answer "yes" and the options ["a"] survived
\* as a True question.
C10_Witness ==
    /\ qz_pc = "validated"
    /\ Len(raw_questions) = 1
    /\ Len(valid_questions) = 1
    /\ raw_questions[1].correct_answer = S(<<"y", "e", "s">>)
    /\ raw_questions[1].options = L(<<S(<<"a">>)>>)
    /\ IsTrueFalse(valid_questions[1])
    /\ valid_questions[1].correct_answer = S(W_True)

\* C11: the validator applied to the list it returned gives that list back:
\* no record dropped, no field changed.
C11_ValidatorIdempotent ==
    qz_pc = "revalidated" => valid_again = valid_questions

\* C11 witness: a record that the first pass had to normalise (or truncate)
\* went through the second pass.
C11_Witness ==
    /\ qz_pc = "revalidated"
    /\ Len(raw_questions) = 1
    /\ Len(valid_questions) = 1
    /\ Len(raw_questions[1].question.s) > QuestionCap
    /\ Len(valid_questions[1].question.s) = QuestionCap
    /\ valid_again = valid_questions

\* The positions of the raw list whose element passes on its own.
Passing == {i \in 1..Len(raw_questions) :
              /\ raw_questions[i].dict
              /\ _validate_question_structure(raw_questions[i]).ok}

\* C12: the validated list holds, in input order, exactly the elements that
\* pass on their own (normalised), whatever the other elements are; it is
\* never longer than the input, and anything that is not a list gives [].
C12_FailOpenPerRecord ==
    qz_pc # "input" =>
        /\ Len(valid_questions) <= Len(raw_questions)
        /\ ~raw_is_list => valid_questions = <<>>
        /\ raw_is_list =>
              /\ Len(valid_questions) = Cardinality(Passing)
              /\ \A i \in Passing :
                    valid_questions[Cardinality({j \in Passing : j <= i})]
                        = _validate_question_structure(raw_questions[i]).q

\* C12 witness: a batch whose first element is malformed and whose second
\* is valid gave the second alone.
C12_Witness ==
    /\ qz_pc = "validated"
    /\ Len(raw_questions) = 2
    /\ Passing = {2}
    /\ Len(valid_questions) = 1
    /\ valid_questions[1].question = S(<<"q", "1">>)

-----------------------------------------------------------------------------
(* The question counts: agents/quiz.py (direct mode) and                   *)
(* src/agents/quiz_agent.py (_distribute_questions)                         *)

\* agents/quiz.py line 51: the limit of the direct mode.
DirectCap == 3

\* QuizAgent._direct_text_prompt(text, avoid_history, count): the number of
\* questions the prompt asks for.  Line 107 formats self.questions_count
\* into the text; the parameter count is not read anywhere in the method.
_direct_text_prompt(questions_count, count) == questions_count

\* QuizAgent._generate_direct_quiz, lines 48-55: the local count and the
\* number the prompt handed to _execute_pipeline asks for.
_generate_direct_quiz(questions_count) ==
    LET count == Min(questions_count, DirectCap)
    IN  [count |-> count, requested |-> _direct_text_prompt(questions_count, count)]

\* The importance of a concept: the three levels of the parser, and a
\* value outside the table of line 259.
ImportanceLevels == {"high", "medium", "low", "other"}

\* Line 259-263: importance_order.get(c.importance, 1)
importance_order(importance) ==
    CASE importance = "high" -> 3
      [] importance = "medium" -> 2
      [] OTHER -> 1

\* The concepts are ConceptSchema objects (langgraph/state_schema.py lines
\* 10-15, what the parser and AdaptedQuizAgent build): a pydantic BaseModel
\* that is not frozen defines __eq__ and has no __hash__.  "object" stands
\* for instances of a plain class, hashed by identity.
ConceptClasses == {"ConceptSchema", "object"}
Hashable(class) == class = "object"

RECURSIVE SumSeq(_)
SumSeq(counts) == IF counts = <<>> THEN 0 ELSE Head(counts) + SumSeq(Tail(counts))

\* Lines 260-264: sorted(..., reverse=True) is stable; the place of the
\* concept at position p of the list.
Place(concepts, p) ==
    1 + Cardinality({q \in 1..Len(concepts) :
            \/ importance_order(concepts[q].importance) > importance_order(concepts[p].importance)
            \/ /\ importance_order(concepts[q].importance) = importance_order(concepts[p].importance)
               /\ q < p})

\* sorted_concepts, as positions of the list.
sorted_concepts(concepts) ==
    [i \in 1..Len(concepts) |-> CHOOSE p \in 1..Len(concepts) : Place(concepts, p) = i]

\* Lines 266-271: the counts before normalisation, by place.
FirstCounts(num_questions, concepts) ==
    LET base_questions == num_questions \div Len(concepts)
        remainder == num_questions % Len(concepts)
    IN  [i \in 1..Len(concepts) |->
            LET extra == IF i - 1 < remainder THEN 1 ELSE 0
                importance_bonus ==
                    IF concepts[sorted_concepts(concepts)[i]].importance = "high"
                       /\ base_questions > 0
                    THEN 1 ELSE 0
            IN  Max(1, base_questions + extra + importance_bonus)]

\* Lines 274-282: one pass from the last place to the first, taking one
\* question from a concept that has more than one until the total fits.
RECURSIVE Normalise(_, _, _, _)
Normalise(counts, i, total, num_questions) ==
    IF i = 0 \/ total <= num_questions THEN counts
    ELSE IF counts[i] > 1
    THEN Normalise([counts EXCEPT ![i] = @ - 1], i - 1, total - 1, num_questions)
    ELSE Normalise(counts, i - 1, total, num_questions)

\* src/agents/quiz_agent.py QuizAgent._distribute_questions: the dict as
\* the count of each position of the list.  An empty list divides by zero
\* at line 252; an unhashable concept raises TypeError at line 271.
_distribute_questions(num_questions, concepts) ==
    IF concepts = <<>>
    THEN [kind |-> "raise", exc |-> "ZeroDivisionError", distribution |-> <<>>]
    ELSE IF \E p \in 1..Len(concepts) : ~Hashable(concepts[p].class)
    THEN [kind |-> "raise", exc |-> "TypeError", distribution |-> <<>>]
    ELSE LET first == FirstCounts(num_questions, concepts)
             final == Normalise(first, Len(concepts), SumSeq(first), num_questions)
         IN  [kind |-> "return", exc |-> "none",
              distribution |-> [p \in 1..Len(concepts) |-> final[Place(concepts, p)]]]

\* The lists of concepts handed to the generator: of one class, of every
\* combination of importance levels, up to MaxConcepts long.
ConceptLists ==
    UNION {{[p \in 1..n |-> [class |-> c, importance |-> f[p]]] :
               f \in [1..n -> ImportanceLevels], c \in ConceptClasses} :
           n \in 0..MaxConcepts}

NoCount == [by |-> "none", kind |-> "none", exc |-> "none",
            count |-> 0, requested |-> 0, distribution |-> <<>>]

CountIdle ==
    /\ qc_pc = "input"
    /\ qc_count = 0
    /\ qc_concepts = <<>>
    /\ qc_result = NoCount

\* QuizAgent._generate_direct_quiz with questions_count = qc_count
GenerateDirectQuiz ==
    /\ qc_pc = "input"
    /\ qc_pc' = "done"
    /\ LET r == _generate_direct_quiz(qc_count)
       IN  qc_result' = [NoCount EXCEPT !.by = "_generate_direct_quiz",
                                        !.kind = "return",
                                        !.count = r.count,
                                        !.requested = r.requested]
    /\ UNCHANGED <<qc_count, qc_concepts>>

\* QuizAgent._distribute_questions(qc_concepts) with num_questions = qc_count
DistributeQuestions ==
    /\ qc_pc = "input"
    /\ qc_pc' = "done"
    /\ LET r == _distribute_questions(qc_count, qc_concepts)
       IN  qc_result' = [NoCount EXCEPT !.by = "_distribute_questions",
                                        !.kind = r.kind,
                                        !.exc = r.exc,
                                        !.distribution = r.distribution]
    /\ UNCHANGED <<qc_count, qc_concepts>>

-----------------------------------------------------------------------------
(* Claims about the question counts *)

\* C29: in direct_quiz mode the generation request asks for
\* min(questions_count, 3) questions, for every questions_count.
C29_DirectQuizCapped ==
    (qc_pc = "done" /\ qc_result.by = "_generate_direct_quiz") =>
        qc_result.requested = Min(qc_count, DirectCap)

\* The local count of line 51 does hold the capped number.
DirectCountCapped ==
    (qc_pc = "done" /\ qc_result.by = "_generate_direct_quiz") =>
        qc_result.count = Min(qc_count, DirectCap)

\* _distribute_questions ran on a non-empty list of at most num_questions
\* concepts.
DistributedWithinCount ==
    /\ qc_pc = "done"
    /\ qc_result.by = "_distribute_questions"
    /\ qc_concepts # <<>>
    /\ Len(qc_concepts) <= qc_count

\* Every concept has at least 1 question and the counts sum to num_questions.
ExactDistribution ==
    /\ qc_result.kind = "return"
    /\ Len(qc_result.distribution) = Len(qc_concepts)
    /\ \A p \in 1..Len(qc_concepts) : qc_result.distribution[p] >= 1
    /\ SumSeq(qc_result.distribution) = qc_count

\* C30: for any non-empty list of at most num_questions concepts, of any
\* importance levels, _distribute_questions gives every concept at least 1
\* question and the counts sum to exactly num_questions.
C30_DistributionExact == DistributedWithinCount => ExactDistribution

\* The same for concepts that can be dict keys.
DistributionExactForHashable ==
    (DistributedWithinCount /\ \A p \in 1..Len(qc_concepts) : Hashable(qc_concepts[p].class))
        => ExactDistribution

-----------------------------------------------------------------------------
(* Specifications *)

JsonIdle ==
    /\ gj_pc = "idle"
    /\ gj_prompt = <<>>
    /\ gj_retry = 0
    /\ gj_attempt = 0
    /\ gj_calls = 0
    /\ gj_log = <<>>
    /\ gj_last_error = "None"
    /\ gj_result = NoResult

QuizIdle ==
    /\ qz_pc = "input"
    /\ raw_is_list = TRUE
    /\ raw_questions = <<>>
    /\ valid_questions = <<>>
    /\ valid_again = <<>>

PipelineOff ==
    /\ PipelineIdle
    /\ AnswerIdle
    /\ CacheOpsIdle
    /\ HistoryOpsIdle
    /\ factcheck_enabled = TRUE
    /\ cache_enabled = TRUE
    /\ cache = [k \in CacheKeys |-> NoFile]

InitJson == JsonIdle /\ QuizIdle /\ PipelineOff /\ ExtractIdle /\ CountIdle

NextJson ==
    \/ \E p \in Prompts, n \in 0..MaxRetry : GenerateJsonStart(p, n) /\ UNCHANGED <<qvars, pvars, avars, cvars, hvars, xvars, nvars>>
    \/ \E out \in ProviderOutcomes : GenerateJsonAttempt(out) /\ UNCHANGED <<qvars, pvars, avars, cvars, hvars, xvars, nvars>>
    \/ GenerateJsonDone /\ UNCHANGED <<qvars, pvars, avars, cvars, hvars, xvars, nvars>>

SpecJson == InitJson /\ [][NextJson]_vars

InitQuiz ==
    /\ JsonIdle
    /\ PipelineOff
    /\ ExtractIdle
    /\ CountIdle
    /\ qz_pc = "input"
    /\ valid_questions = <<>>
    /\ valid_again = <<>>
    /\ \/ raw_is_list = TRUE /\ raw_questions \in RawBatches
       \/ raw_is_list = FALSE /\ raw_questions = <<>>

NextQuiz ==
    \/ ValidateAndFilter /\ UNCHANGED <<jvars, pvars, avars, cvars, hvars, xvars, nvars>>
    \/ ValidateAgain /\ UNCHANGED <<jvars, pvars, avars, cvars, hvars, xvars, nvars>>

SpecQuiz == InitQuiz /\ [][NextQuiz]_vars

\* The cache manager alone, on an empty directory.
InitCache ==
    /\ JsonIdle
    /\ QuizIdle
    /\ PipelineIdle
    /\ AnswerIdle
    /\ factcheck_enabled = TRUE
    /\ cache_enabled = TRUE
    /\ cache = [f \in FileNames |-> NoFile]
    /\ file_age = [f \in FileNames |-> 0]
    /\ cache_op = NoOp
    /\ stored = [k \in KeyNames |-> NoValue]
    /\ written = [f \in FileNames |-> NoValue]
    /\ HistoryOpsIdle
    /\ ExtractIdle
    /\ CountIdle

NextCache ==
    \/ \E k \in KeyNames, v \in SavedValues, io_ok \in BOOLEAN :
          CacheManagerSave(k, v, io_ok) /\ UNCHANGED <<jvars, qvars, pvars_but_cache, avars, hvars, xvars, nvars>>
    \/ \E k \in KeyNames, io_ok \in BOOLEAN :
          CacheManagerDelete(k, io_ok) /\ UNCHANGED <<jvars, qvars, pvars_but_cache, avars, hvars, xvars, nvars>>
    \/ \E d \in {NoLimit} \cup (0..MaxAge), failing \in SUBSET FileNames :
          CacheManagerClear(d, failing) /\ UNCHANGED <<jvars, qvars, pvars_but_cache, avars, hvars, xvars, nvars>>
    \/ DayPasses /\ UNCHANGED <<jvars, qvars, pvars_but_cache, avars, hvars, xvars, nvars>>

SpecCache == InitCache /\ [][NextCache]_vars

\* The history manager alone, on an empty collection.
InitHistory == JsonIdle /\ QuizIdle /\ PipelineOff /\ ExtractIdle /\ CountIdle

NextHistory ==
    \/ \E b \in AddedBatches :
          HistoryAdd(b) /\ UNCHANGED <<jvars, qvars, pvars_but_history, avars, cvars, xvars, nvars>>
    \/ \E t \in {T1, T2, T1_lower}, n \in LookbackCounts :
          HistoryFind(t, n) /\ UNCHANGED <<jvars, qvars, pvars_but_history, avars, cvars, xvars, nvars>>

SpecHistory == InitHistory /\ [][NextHistory]_vars

\* The extractors alone: one text, one call.
InitExtract ==
    /\ JsonIdle
    /\ QuizIdle
    /\ PipelineOff
    /\ CountIdle
    /\ ex_pc = "input"
    /\ ex_result = NoExtraction
    /\ \/ \E content \in Objects, tagged \in BOOLEAN, c \in Commentaries :
             /\ ex_fenced = content
             /\ ex_text = Fenced(content, tagged) \o <<NL>> \o c
       \/ ex_fenced = <<>> /\ ex_text \in OtherTexts

NextExtract ==
    \/ ParseJsonFromText /\ UNCHANGED <<jvars, qvars, pvars, avars, cvars, hvars, nvars>>
    \/ ParseLlmJson /\ UNCHANGED <<jvars, qvars, pvars, avars, cvars, hvars, nvars>>

SpecExtract == InitExtract /\ [][NextExtract]_vars

\* Every questions_count from 1 to MaxQuestions, with every list of concepts.
InitCount ==
    /\ JsonIdle
    /\ QuizIdle
    /\ PipelineOff
    /\ ExtractIdle
    /\ qc_pc = "input"
    /\ qc_count \in 1..MaxQuestions
    /\ qc_concepts \in ConceptLists
    /\ qc_result = NoCount

NextCount ==
    \/ GenerateDirectQuiz /\ UNCHANGED <<jvars, qvars, pvars, avars, cvars, hvars, xvars>>
    \/ DistributeQuestions /\ UNCHANGED <<jvars, qvars, pvars, avars, cvars, hvars, xvars>>

SpecCount == InitCount /\ [][NextCount]_vars

\* The configurations: the defaults with each cache directory, and each of
\* the two switches off with an empty cache directory.
Init ==
    /\ JsonIdle
    /\ QuizIdle
    /\ PipelineIdle
    /\ AnswerIdle
    /\ CacheOpsIdle
    /\ HistoryOpsIdle
    /\ ExtractIdle
    /\ CountIdle
    /\ \/ factcheck_enabled = TRUE /\ cache_enabled = TRUE /\ cache \in InitialCaches
       \/ /\ factcheck_enabled \in BOOLEAN
          /\ cache_enabled = ~factcheck_enabled
          /\ cache = [k \in CacheKeys |-> NoFile]

Next ==
    \/ \E n \in Notes, f \in BOOLEAN : PipelineStart(n, f) /\ UNCHANGED <<jvars, qvars, avars, cvars, hvars, xvars, nvars>>
    \/ HotStart /\ UNCHANGED <<jvars, qvars, avars, cvars, hvars, xvars, nvars>>
    \/ \E resp \in ClassifyResponses : Classify(resp) /\ UNCHANGED <<jvars, qvars, avars, cvars, hvars, xvars, nvars>>
    \/ \E out \in ExtractionOutcomes, io_ok \in BOOLEAN :
          Extract(out, io_ok) /\ UNCHANGED <<jvars, qvars, avars, cvars, hvars, xvars, nvars>>
    \/ \E out \in FactCheckOutcomes : FactCheck(out) /\ UNCHANGED <<jvars, qvars, avars, cvars, hvars, xvars, nvars>>
    \/ \E io_ok \in BOOLEAN : CacheSave(io_ok) /\ UNCHANGED <<jvars, qvars, avars, cvars, hvars, xvars, nvars>>
    \/ \E out \in GenerationOutcomes : Generate(out) /\ UNCHANGED <<jvars, qvars, avars, cvars, hvars, xvars, nvars>>
    \/ UpdateHistoryAndReturn /\ UNCHANGED <<jvars, qvars, avars, cvars, hvars, xvars, nvars>>
    \/ PipelineReturn /\ UNCHANGED <<jvars, qvars, avars, cvars, hvars, xvars, nvars>>
    \/ \E id \in SubmittedIds, ans \in UserAnswers, out \in ExplainOutcomes :
          SubmitAnswer(id, ans, out) /\ UNCHANGED <<jvars, qvars, cvars, hvars, xvars, nvars>>
    \/ AnswerReturn /\ UNCHANGED <<jvars, qvars, cvars, hvars, xvars, nvars>>

Spec == Init /\ [][Next]_vars

====
